---- MODULE Spec2Model ----
(***************************************************************************)
(* A model of the macloop audio pipeline (kemsta/macloop, Rust).           *)
(*                                                                         *)
(* Conventions                                                             *)
(*   Option<T>     None is <<>>, Some(x) is <<x>>.                         *)
(*   f64 ERLE      fixed point, ErleScale units per 1.0 (0.1 is 100).      *)
(*   f32 samples   integers, AmpScale units per 1.0 (1.0e-4 is 10).        *)
(*   AudioFrame    [source, samples, sample_rate, channels, timestamp].    *)
(*   A struct is a record with the fields of the Rust struct; a method     *)
(*   taking &mut self is an operator from the old record to the new one.   *)
(***************************************************************************)
EXTENDS Integers, Sequences, FiniteSets, TLC

VARIABLES
    config,     \* AudioProcessingConfig of the run
    aec,        \* AecProcessor
    stats,      \* RuntimeStats behind the RuntimeStatsHandle
    normalizer, \* TimestampNormalizer
    quantizer,  \* FrameQuantizer
    processors, \* ModularPipeline.processors, the main chain
    sys_pipeline,   \* the system-final chain of run
    mic_pipeline,   \* the mic-final chain of run
    rx,         \* the input channel: the frames queued and whether a
                \* sender is left
    stop_rx,    \* the stop channel: whether the signal is in it
    callback,   \* what a call of the Python callback comes to: "ok",
                \* "callback_error", "gil_failure"
    pc,         \* where the worker is: "none" (no thread), "attach",
                \* "loop", "done", "panicked"
    engine,     \* AudioEngine: whether stream, thread and stop_tx are Some,
                \* and the worker threads left running without a handle
    host,       \* the host thread: the call of the engine it is in, where
                \* in it, and what its last call returned
    gil,        \* the host runtime's global lock: "free" or held by "host"
    hist        \* history: the last operation and what it returned

vars == <<config, aec, stats, normalizer, quantizer, processors, sys_pipeline,
          mic_pipeline, rx, stop_rx, callback, pc, engine, host, gil, hist>>

workerVars ==
    <<processors, sys_pipeline, mic_pipeline, rx, stop_rx, callback, pc>>

hostVars == <<engine, host, gil>>

\* The host thread outside every call of the engine.
HostIdle == [call |-> "none", at |-> "idle", ret |-> "none", calls |-> 0]

\* No worker: the state of the worker's variables where a processor is
\* taken on its own.
NoWorker ==
    /\ engine = [stream |-> FALSE, thread |-> FALSE, stop_tx |-> FALSE,
                 detached |-> 0]
    /\ host = HostIdle
    /\ gil = "free"
    /\ processors = <<>>
    /\ sys_pipeline = <<>>
    /\ mic_pipeline = <<>>
    /\ rx = [queue |-> <<>>, connected |-> FALSE]
    /\ stop_rx = [signal |-> FALSE]
    /\ callback = "ok"
    /\ pc = "none"

----------------------------------------------------------------------------
(* Option<T> and small helpers                                             *)

None == <<>>
Some(x) == <<x>>
IsSome(o) == o # <<>>
Unwrap(o) == o[1]

\* The frames of an Option<AudioFrame>: none or one.
OptionFrames(o) == IF IsSome(o) THEN <<Unwrap(o)>> ELSE <<>>

\* let x = value; then(x): the value is computed once and used under a name.
Bind(value, then(_)) == then(value)

Max(a, b) == IF a >= b THEN a ELSE b
Min(a, b) == IF a <= b THEN a ELSE b
Abs(x) == IF x < 0 THEN -x ELSE x

\* i32::clamp(x, lo, hi); the caller checks lo <= hi (clamp panics otherwise).
Clamp(x, lo, hi) == IF x < lo THEN lo ELSE IF x > hi THEN hi ELSE x

Microphone == "Microphone"
System == "System"
AudioSourceType == {Microphone, System}

AudioFrame(source, samples, sample_rate, channels, timestamp) ==
    [source |-> source, samples |-> samples, sample_rate |-> sample_rate,
     channels |-> channels, timestamp |-> timestamp]

----------------------------------------------------------------------------
(* Scales of the fixed-point encodings                                     *)

ErleScale == 1000
AmpScale == 100000

----------------------------------------------------------------------------
(* stats.rs                                                                *)

AecAutoTuneStatsDefault ==
    [enabled |-> FALSE, frozen |-> FALSE, applied_delay_ms |-> 0,
     best_delay_ms |-> 0, step_ms |-> 0, direction |-> 1,
     interval_frames |-> 0, max_delay_ms |-> 0, last_erle |-> None,
     erle_ema |-> None, best_erle |-> None, last_apm_delay_ms |-> None,
     tune_events |-> 0, rollback_events |-> 0, freeze_events |-> 0,
     skipped_inactive_mic |-> 0, skipped_inactive_system |-> 0]

StageStatsDefault == [samples |-> 0, total_ns |-> 0, max_ns |-> 0]

\* StageStats::record
StageStatsRecord(stage, duration_ns) ==
    [samples |-> stage.samples + 1,
     total_ns |-> stage.total_ns + duration_ns,
     max_ns |-> Max(stage.max_ns, duration_ns)]

RuntimeStatsDefault ==
    [frames_in_mic |-> 0, frames_in_system |-> 0,
     frames_out_mic |-> 0, frames_out_system |-> 0,
     processor_errors |-> 0, processor_drain_errors |-> 0,
     callback_errors |-> 0, gil_acquire_failures |-> 0,
     timestamp_processor |-> StageStatsDefault,
     webrtc_resample_processor |-> StageStatsDefault,
     quantizer_processor |-> StageStatsDefault,
     aec_processor |-> StageStatsDefault,
     ns_processor |-> StageStatsDefault,
     processing_time |-> StageStatsDefault,
     total_pipeline |-> StageStatsDefault,
     aec_tuner |-> AecAutoTuneStatsDefault]

----------------------------------------------------------------------------
(* processors/timestamp.rs                                                 *)
(* Timestamps are u64 nanoseconds.  The model keeps them far below 2^64,   *)
(* where the addition of normalize_timestamp does not overflow.            *)

\* TimestampNormalizer::new(); now is what the system clock answers.
TimestampNormalizerNew(now) ==
    [first_sys_timestamp |-> None, first_mic_timestamp |-> None,
     normalized_start_time |-> now]

\* u64::saturating_sub
SaturatingSub(a, b) == IF a >= b THEN a - b ELSE 0

\* normalize_timestamp with one anchor for both sources.
normalize_timestamp_shared(n, timestamp, source) ==
    IF IsSome(n.first_sys_timestamp)
    THEN [normalizer |-> n,
          out |-> n.normalized_start_time
                  + SaturatingSub(timestamp, Unwrap(n.first_sys_timestamp))]
    ELSE [normalizer |-> [n EXCEPT !.first_sys_timestamp = Some(timestamp)],
          out |-> n.normalized_start_time]

\* TimestampNormalizer::normalize_timestamp: the new normalizer and the
\* returned timestamp.
normalize_timestamp(n, timestamp, source) ==
    IF source = System
    THEN IF IsSome(n.first_sys_timestamp)
         THEN [normalizer |-> n,
               out |-> n.normalized_start_time
                       + SaturatingSub(timestamp, Unwrap(n.first_sys_timestamp))]
         ELSE [normalizer |-> [n EXCEPT !.first_sys_timestamp = Some(timestamp)],
               out |-> n.normalized_start_time]
    ELSE IF IsSome(n.first_mic_timestamp)
         THEN [normalizer |-> n,
               out |-> n.normalized_start_time
                       + SaturatingSub(timestamp, Unwrap(n.first_mic_timestamp))]
         ELSE [normalizer |-> [n EXCEPT !.first_mic_timestamp = Some(timestamp)],
               out |-> n.normalized_start_time]

\* TimestampNormalizer::process: the new normalizer and the returned
\* Option<AudioFrame>.
TimestampNormalizerProcess(n, frame) ==
    LET r == normalize_timestamp(n, frame.timestamp, frame.source)
    IN  [normalizer |-> r.normalizer,
         out |-> Some([frame EXCEPT !.timestamp = r.out])]

\* TimestampNormalizer::flush
TimestampNormalizerFlush(n) == [normalizer |-> n, out |-> <<>>]

\* TimestampNormalizer::reset
TimestampNormalizerReset(n, now) ==
    [n EXCEPT !.first_sys_timestamp = None, !.first_mic_timestamp = None,
              !.normalized_start_time = now]

----------------------------------------------------------------------------
(* Sequences of samples                                                    *)

\* The first n elements of a sequence, and the rest.
Take(seq, n) == SubSeq(seq, 1, n)
Drop(seq, n) == SubSeq(seq, n + 1, Len(seq))

\* Vec::resize(n, 0.0) of a vector shorter than n.
ResizeZero(seq, n) == [i \in 1..n |-> IF i <= Len(seq) THEN seq[i] ELSE 0]

\* (n * 1_000_000_000) / sample_rate, with both terms of the quotient
\* divided by 16000: the sample rates of the model are multiples of 16000,
\* so the quotient is the same.
SamplesToNs(n, sample_rate) == (n * 62500) \div (sample_rate \div 16000)

----------------------------------------------------------------------------
(* processors/resample.rs                                                  *)

ResampleChunkSize == 1024

\* Fft::process on one chunk of interleaved input: chunk_size * target_rate
\* / source_rate frames, each the input frame at the same point in time.
ResamplerProcess(chunk, source_rate, target_rate, channels) ==
    LET frames == ((Len(chunk) \div channels) * target_rate) \div source_rate
    IN  [i \in 1..(frames * channels) |->
            chunk[(((((i - 1) \div channels) * source_rate) \div target_rate)
                     * channels) + ((i - 1) % channels) + 1]]

\* StreamState::new; resampler_ok is whether Fft::new succeeds.
StreamStateNew(source_rate, target_rate, target_channels, chunk_size, resampler_ok) ==
    [resampler |-> IF source_rate # target_rate /\ resampler_ok
                   THEN Some([source_rate |-> source_rate,
                              target_rate |-> target_rate])
                   ELSE None,
     source_rate |-> source_rate,
     input_buffer |-> <<>>,
     output_queue |-> <<>>,
     current_timestamp |-> 0,
     buffered_samples |-> 0,
     ready_queue |-> <<>>]

\* StreamState::reset
StreamStateReset(state) ==
    [state EXCEPT !.input_buffer = <<>>, !.output_queue = <<>>,
                  !.current_timestamp = 0, !.buffered_samples = 0,
                  !.ready_queue = <<>>]

\* ResampleProcessor::new
ResampleProcessorNew(source_rate, target_rate, target_channels, source_type, resampler_ok) ==
    [mic_state |-> StreamStateNew(source_rate, target_rate, target_channels,
                                  ResampleChunkSize, resampler_ok),
     sys_state |-> StreamStateNew(source_rate, target_rate, target_channels,
                                  ResampleChunkSize, resampler_ok),
     chunk_size |-> ResampleChunkSize,
     target_rate |-> target_rate,
     target_channels |-> target_channels,
     source_type |-> source_type,
     last_processed_source |-> source_type]

\* ResampleProcessor::from_config
from_config(cfg, source_type, resampler_ok) ==
    ResampleProcessorNew(48000, cfg.sample_rate, cfg.channels, source_type,
                         resampler_ok)

\* A state_mut that hands out one stream state for both sources.
set_merged_state(p, source, state) ==
    [p EXCEPT !.mic_state = state, !.sys_state = state]

\* ResampleProcessor::state_mut, read and written.
stream_state(p, source) ==
    IF source = Microphone THEN p.mic_state ELSE p.sys_state
set_stream_state(p, source, state) ==
    IF source = Microphone THEN [p EXCEPT !.mic_state = state]
    ELSE [p EXCEPT !.sys_state = state]

\* The sum of the samples of a chunk.
RECURSIVE SumSamples(_)
SumSamples(chunk) ==
    IF chunk = <<>> THEN 0 ELSE Head(chunk) + SumSamples(Tail(chunk))

\* ResampleProcessor::convert_channels; the mean is an integer division.
convert_channels(p, frame) ==
    IF p.target_channels = 1 /\ frame.channels > 1
    THEN [i \in 1..(Len(frame.samples) \div frame.channels) |->
            SumSamples(SubSeq(frame.samples, (i - 1) * frame.channels + 1,
                              i * frame.channels)) \div frame.channels]
    ELSE IF p.target_channels = 2 /\ frame.channels = 1
    THEN [i \in 1..(2 * Len(frame.samples)) |-> frame.samples[(i + 1) \div 2]]
    ELSE frame.samples

\* The while loop of process_resampling_state (lines 165-231): the new
\* state and the frames emitted, after those of acc.
RECURSIVE ResampleChunks(_, _, _, _, _, _)
ResampleChunks(state, chunk_size, target_rate, target_channels, source, acc) ==
    LET needed == chunk_size * target_channels
        samples == ResamplerProcess(Take(state.input_buffer, needed),
                                    state.source_rate, target_rate,
                                    target_channels)
        consumed == [state EXCEPT !.input_buffer = Drop(@, needed)]
    IN  IF Len(state.input_buffer) < needed THEN [state |-> state, results |-> acc]
        ELSE IF samples = <<>>
        THEN ResampleChunks(consumed, chunk_size, target_rate, target_channels,
                            source, acc)
        ELSE ResampleChunks(
                [consumed EXCEPT !.buffered_samples =
                                    @ + Len(samples) \div target_channels],
                chunk_size, target_rate, target_channels, source,
                Append(acc, AudioFrame(source, samples, target_rate,
                           target_channels,
                           state.current_timestamp
                             + SamplesToNs(state.buffered_samples, target_rate))))

\* ResampleProcessor::process_resampling_state: the new state and the
\* returned frames.
process_resampling_state(state, chunk_size, target_rate, target_channels, source) ==
    IF IsSome(state.resampler)
    THEN ResampleChunks(state, chunk_size, target_rate, target_channels,
                        source, <<>>)
    ELSE IF state.output_queue # <<>>
    THEN [state |-> [state EXCEPT
                        !.output_queue = <<>>,
                        !.buffered_samples =
                            @ + Len(state.output_queue) \div target_channels],
          results |-> <<AudioFrame(source, state.output_queue,
                          IF state.source_rate = target_rate
                          THEN target_rate ELSE state.source_rate,
                          target_channels,
                          state.current_timestamp
                            + SamplesToNs(state.buffered_samples, target_rate))>>]
    ELSE [state |-> state, results |-> <<>>]

\* process() that keeps the anchor and the sample count of the stream
\* instead of taking those of a frame arriving at empty buffers.
ProcessWithoutAnchor(p, frame) ==
    LET source == frame.source
        samples_ref == convert_channels(p, frame)
        state == stream_state(p, source)
        extended == IF IsSome(state.resampler)
                    THEN [state EXCEPT !.input_buffer = @ \o samples_ref]
                    ELSE [state EXCEPT !.output_queue = @ \o samples_ref]
        r == process_resampling_state(extended, p.chunk_size, p.target_rate,
                                      p.target_channels, source)
        ready == r.state.ready_queue \o r.results
        p1 == [p EXCEPT !.last_processed_source = source]
    IN  IF ready = <<>>
        THEN [processor |-> set_stream_state(p1, source, r.state), out |-> None]
        ELSE [processor |-> set_stream_state(p1, source,
                                [r.state EXCEPT !.ready_queue = Tail(ready)]),
              out |-> Some(Head(ready))]

\* ResampleProcessor::process: the new processor and the returned
\* Option<AudioFrame>.
ResampleProcessorProcess(p, frame) ==
    LET source == frame.source
        samples_ref == convert_channels(p, frame)
        state == stream_state(p, source)
        anchored == IF state.input_buffer = <<>> /\ state.output_queue = <<>>
                    THEN [state EXCEPT !.current_timestamp = frame.timestamp,
                                       !.buffered_samples = 0]
                    ELSE state
        extended == IF IsSome(anchored.resampler)
                    THEN [anchored EXCEPT !.input_buffer = @ \o samples_ref]
                    ELSE [anchored EXCEPT !.output_queue = @ \o samples_ref]
        r == process_resampling_state(extended, p.chunk_size, p.target_rate,
                                      p.target_channels, source)
        ready == r.state.ready_queue \o r.results
        p1 == [p EXCEPT !.last_processed_source = source]
    IN  IF ready = <<>>
        THEN [processor |-> set_stream_state(p1, source, r.state), out |-> None]
        ELSE [processor |-> set_stream_state(p1, source,
                                [r.state EXCEPT !.ready_queue = Tail(ready)]),
              out |-> Some(Head(ready))]

\* ResampleProcessor::drain_ready
ResampleProcessorDrainReady(p) ==
    LET source == p.last_processed_source
        state == stream_state(p, source)
    IN  IF state.ready_queue = <<>> THEN [processor |-> p, out |-> None]
        ELSE [processor |-> set_stream_state(p, source,
                                [state EXCEPT !.ready_queue = Tail(@)]),
              out |-> Some(Head(state.ready_queue))]

\* One block of ResampleProcessor::flush (lines 380-390, 392-402): the new
\* processor and the frames of that source.
ResampleFlushSource(p, source) ==
    LET state == stream_state(p, source)
        r == process_resampling_state([state EXCEPT !.ready_queue = <<>>],
                                      p.chunk_size, p.target_rate,
                                      p.target_channels, source)
    IN  [processor |-> set_stream_state(p, source, r.state),
         out |-> state.ready_queue \o r.results]

\* ResampleProcessor::flush
ResampleProcessorFlush(p) ==
    LET sys == ResampleFlushSource(p, System)
        mic == ResampleFlushSource(sys.processor, Microphone)
    IN  [processor |-> mic.processor, out |-> sys.out \o mic.out]

\* ResampleProcessor::reset
ResampleProcessorReset(p) ==
    [p EXCEPT !.mic_state = StreamStateReset(@),
              !.sys_state = StreamStateReset(@),
              !.last_processed_source = p.source_type]

----------------------------------------------------------------------------
(* processors/quantizer.rs                                                 *)

\* QuantizerState::with_capacity
QuantizerStateWithCapacity ==
    [sample_buffer |-> <<>>, current_timestamp |-> 0, samples_processed |-> 0]

\* FrameQuantizer::for_webrtc
for_webrtc ==
    [mic_state |-> QuantizerStateWithCapacity,
     sys_state |-> QuantizerStateWithCapacity,
     ready_queue |-> <<>>,
     quantum_size |-> 480,
     expected_sample_rate |-> 48000,
     expected_channels |-> 1]

\* FrameQuantizer::with_quantum_size
with_quantum_size(quantum_size, sample_rate, channels) ==
    [mic_state |-> QuantizerStateWithCapacity,
     sys_state |-> QuantizerStateWithCapacity,
     ready_queue |-> <<>>,
     quantum_size |-> quantum_size,
     expected_sample_rate |-> sample_rate,
     expected_channels |-> channels]

\* FrameQuantizer::source_state_mut, read and written.
source_state(q, source) ==
    IF source = Microphone THEN q.mic_state ELSE q.sys_state
set_source_state(q, source, state) ==
    IF source = Microphone THEN [q EXCEPT !.mic_state = state]
    ELSE [q EXCEPT !.sys_state = state]

\* current_timestamp + (samples_processed * 1_000_000_000) / sample_rate
QuantumTimestamp(state, sample_rate) ==
    state.current_timestamp + SamplesToNs(state.samples_processed, sample_rate)

\* FrameQuantizer::extract_quantum_from_state: the new state and the
\* returned Option<AudioFrame>.
extract_quantum_from_state(source, state, quantum_size, expected_sample_rate, expected_channels) ==
    IF Len(state.sample_buffer) < quantum_size
    THEN [state |-> state, out |-> None]
    ELSE [state |-> [state EXCEPT
                        !.sample_buffer = Drop(@, quantum_size),
                        !.samples_processed = @ + quantum_size],
          out |-> Some(AudioFrame(source,
                                  Take(state.sample_buffer, quantum_size),
                                  expected_sample_rate, expected_channels,
                                  QuantumTimestamp(state, expected_sample_rate)))]

\* The loop of enqueue_ready_quanta and of flush_source: extract until
\* None; the new state and the frames extracted, after those of acc.
RECURSIVE ExtractLoop(_, _, _, _)
ExtractLoop(q, source, state, acc) ==
    LET next == extract_quantum_from_state(source, state, q.quantum_size,
                    q.expected_sample_rate, q.expected_channels)
    IN  IF IsSome(next.out)
        THEN ExtractLoop(q, source, next.state, Append(acc, Unwrap(next.out)))
        ELSE [state |-> state, frames |-> acc]

\* enqueue_ready_quanta that takes the timestamp of every frame arriving at
\* an empty buffer as the new anchor.
enqueue_reanchoring(q, source, frame_timestamp, frame_samples) ==
    LET state == source_state(q, source)
        anchored == IF state.sample_buffer = <<>>
                    THEN [state EXCEPT !.current_timestamp = frame_timestamp]
                    ELSE state
        extended == [anchored EXCEPT !.sample_buffer = @ \o frame_samples]
        local_ready == ExtractLoop(q, source, extended, <<>>)
    IN  [set_source_state(q, source, local_ready.state) EXCEPT
            !.ready_queue = @ \o local_ready.frames]

\* FrameQuantizer::enqueue_ready_quanta
enqueue_ready_quanta(q, source, frame_timestamp, frame_samples) ==
    LET state == source_state(q, source)
        anchored == IF state.sample_buffer = <<>> /\ state.samples_processed = 0
                    THEN [state EXCEPT !.current_timestamp = frame_timestamp]
                    ELSE state
        extended == [anchored EXCEPT !.sample_buffer = @ \o frame_samples]
        local_ready == ExtractLoop(q, source, extended, <<>>)
    IN  [set_source_state(q, source, local_ready.state) EXCEPT
            !.ready_queue = @ \o local_ready.frames]

\* flush_source that drops the partial buffer instead of padding it.
flush_source_dropping(q, source) ==
    LET full == ExtractLoop(q, source, source_state(q, source), <<>>)
    IN  [quantizer |-> set_source_state(q, source,
                          [full.state EXCEPT !.sample_buffer = <<>>]),
         out |-> full.frames]

\* flush_source that emits the partial buffer as it is, without padding.
flush_source_unpadded(q, source) ==
    LET full == ExtractLoop(q, source, source_state(q, source), <<>>)
        state == full.state
    IN  [quantizer |-> set_source_state(q, source,
                          [state EXCEPT !.sample_buffer = <<>>]),
         out |-> IF state.sample_buffer = <<>> THEN full.frames
                 ELSE Append(full.frames,
                             AudioFrame(source, state.sample_buffer,
                                        q.expected_sample_rate,
                                        q.expected_channels,
                                        QuantumTimestamp(state, q.expected_sample_rate)))]

\* FrameQuantizer::flush_source: the new quantizer and the returned frames.
flush_source(q, source) ==
    LET full == ExtractLoop(q, source, source_state(q, source), <<>>)
        state == full.state
        remaining ==
            IF state.sample_buffer = <<>> THEN None
            ELSE Some(AudioFrame(source,
                                 ResizeZero(state.sample_buffer, q.quantum_size),
                                 q.expected_sample_rate, q.expected_channels,
                                 QuantumTimestamp(state, q.expected_sample_rate)))
    IN  [quantizer |-> set_source_state(q, source,
                          [state EXCEPT !.sample_buffer = <<>>]),
         out |-> IF IsSome(remaining)
                 THEN Append(full.frames, Unwrap(remaining))
                 ELSE full.frames]

\* VecDeque::pop_front on the ready queue: the new quantizer and the
\* Option<AudioFrame>.
PopReady(q) ==
    IF q.ready_queue = <<>> THEN [quantizer |-> q, out |-> None]
    ELSE [quantizer |-> [q EXCEPT !.ready_queue = Tail(@)],
          out |-> Some(Head(q.ready_queue))]

\* process() that takes a frame of any format.
ProcessAnyFormat(q, frame) ==
    PopReady(enqueue_ready_quanta(q, frame.source, frame.timestamp,
                                  frame.samples))

\* FrameQuantizer::process
FrameQuantizerProcess(q, frame) ==
    IF frame.sample_rate # q.expected_sample_rate
    THEN [quantizer |-> q, out |-> None]
    ELSE IF frame.channels # q.expected_channels
    THEN [quantizer |-> q, out |-> None]
    ELSE PopReady(enqueue_ready_quanta(q, frame.source, frame.timestamp,
                                       frame.samples))

\* The default drain_ready of the AudioProcessor trait: nothing is ready.
DefaultDrainReady(q) == [quantizer |-> q, out |-> None]

\* FrameQuantizer::drain_ready
FrameQuantizerDrainReady(q) == PopReady(q)

\* FrameQuantizer::flush
FrameQuantizerFlush(q) ==
    LET sys == flush_source([q EXCEPT !.ready_queue = <<>>], System)
        mic == flush_source(sys.quantizer, Microphone)
    IN  [quantizer |-> mic.quantizer,
         out |-> q.ready_queue \o sys.out \o mic.out]

\* FrameQuantizer::reset
FrameQuantizerReset(q) ==
    [q EXCEPT !.mic_state = QuantizerStateWithCapacity,
              !.sys_state = QuantizerStateWithCapacity,
              !.ready_queue = <<>>]

----------------------------------------------------------------------------
(* processors/aec.rs                                                       *)

SIGNAL_ACTIVITY_THRESHOLD == 10
SYSTEM_ACTIVITY_GRACE_FRAMES == 30
TunerIntervalFrames == 50
TunerInitialStepMs == 5
TunerMinStepMs == 2
TunerMaxStepMs == 8
TunerMaxDelayFloorMs == 20
TunerMaxDelayCeilMs == 1000
TunerWindowMs == 40
TunerFreezeWindows == 8
UnstableDelayMs == 250
U16Modulus == 65536

\* Thresholds on ERLE, in ErleScale units.
UnstableErle == 1000        \* erle < 1.0
BestMargin == 100           \* ema > best + 0.1, |ema - best| <= 0.1
FreezeErle == 3500          \* best >= 3.5
RollbackDrop == 1000        \* ema < best - 1.0
StepMargin == 200           \* erle + 0.2 < last, erle > last + 0.2

\* prev * 0.7 + erle * 0.3
ErleEma(prev, erle) == (prev * 7 + erle * 3) \div 10

\* samples.iter().any(|s| s.abs() >= SIGNAL_ACTIVITY_THRESHOLD)
frame_is_active(samples) ==
    \E i \in DOMAIN samples : Abs(samples[i]) >= SIGNAL_ACTIVITY_THRESHOLD

\* The stream delay build_apm_config puts in the echo canceller's Config:
\* Some(delay_ms as u16) when delay_ms > 0, None otherwise.
build_apm_config(delay_ms) ==
    IF delay_ms > 0 THEN Some(delay_ms % U16Modulus) ELSE None

\* create_apm: apm_ok is whether Processor::new(48_000) succeeded.  The
\* result is None (no processor) or Some of the processor's stream delay.
create_apm(cfg, apm_ok) ==
    IF apm_ok THEN Some(build_apm_config(Max(cfg.aec_stream_delay_ms, 0)))
    ELSE None

\* publish_tuner_stats(erle_snapshot, delay_snapshot)
publish_tuner_stats(a, st, erle_snapshot, delay_snapshot) ==
    [st EXCEPT !.aec_tuner =
        [@ EXCEPT !.enabled = a.config.aec_auto_delay_tuning,
                  !.frozen = a.tuner_frozen,
                  !.applied_delay_ms = a.applied_delay_ms,
                  !.best_delay_ms = a.tuner_best_delay_ms,
                  !.step_ms = a.tuner_step_ms,
                  !.direction = a.tuner_direction,
                  !.interval_frames = a.tuner_interval_frames,
                  !.max_delay_ms = a.tuner_max_delay_ms,
                  !.last_erle = IF IsSome(erle_snapshot) THEN erle_snapshot
                                ELSE a.tuner_last_erle,
                  !.erle_ema = a.tuner_erle_ema,
                  !.best_erle = a.tuner_best_erle,
                  !.last_apm_delay_ms = delay_snapshot,
                  !.skipped_inactive_mic = a.skipped_inactive_mic,
                  !.skipped_inactive_system = a.skipped_inactive_system]]

\* The fields AecProcessor::new and AecProcessor::reset both set.
AecBaseline(cfg) ==
    [applied_delay_ms |-> Max(cfg.aec_stream_delay_ms, 0),
     tuner_last_erle |-> None,
     tuner_erle_ema |-> None,
     tuner_best_erle |-> None,
     tuner_best_delay_ms |-> Max(cfg.aec_stream_delay_ms, 0),
     tuner_direction |-> 1,
     tuner_step_ms |-> TunerInitialStepMs,
     tuner_frozen |-> FALSE,
     tuner_stable_windows |-> 0,
     last_system_active_frame |-> None,
     sys_frames_seen |-> 0,
     mic_frames_seen |-> 0,
     skipped_inactive_mic |-> 0,
     skipped_inactive_system |-> 0]

\* AecProcessor::new, before it publishes the tuner stats.
AecProcessorNew(cfg, apm_ok) ==
    LET b == AecBaseline(cfg) IN
    [apm |-> IF cfg.enable_aec THEN create_apm(cfg, apm_ok) ELSE None,
     config |-> cfg,
     applied_delay_ms |-> b.applied_delay_ms,
     tuner_last_erle |-> b.tuner_last_erle,
     tuner_erle_ema |-> b.tuner_erle_ema,
     tuner_best_erle |-> b.tuner_best_erle,
     tuner_best_delay_ms |-> b.tuner_best_delay_ms,
     tuner_direction |-> b.tuner_direction,
     tuner_step_ms |-> b.tuner_step_ms,
     tuner_interval_frames |-> TunerIntervalFrames,
     tuner_max_delay_ms |->
        Clamp(cfg.aec_max_delay_ms, TunerMaxDelayFloorMs, TunerMaxDelayCeilMs),
     tuner_frozen |-> b.tuner_frozen,
     tuner_stable_windows |-> b.tuner_stable_windows,
     last_system_active_frame |-> b.last_system_active_frame,
     sys_frames_seen |-> b.sys_frames_seen,
     mic_frames_seen |-> b.mic_frames_seen,
     skipped_inactive_mic |-> b.skipped_inactive_mic,
     skipped_inactive_system |-> b.skipped_inactive_system]

\* A reset that restores the applied delay and thaws the tuner, and leaves
\* the rest as it is.
ResetDelayOnly(a) ==
    [a EXCEPT !.applied_delay_ms = Max(a.config.aec_stream_delay_ms, 0),
              !.tuner_frozen = FALSE]

\* AecProcessor::reset, before it publishes the tuner stats.
AecProcessorReset(a) ==
    LET b == AecBaseline(a.config) IN
    [a EXCEPT !.applied_delay_ms = b.applied_delay_ms,
              !.tuner_last_erle = b.tuner_last_erle,
              !.tuner_erle_ema = b.tuner_erle_ema,
              !.tuner_best_erle = b.tuner_best_erle,
              !.tuner_best_delay_ms = b.tuner_best_delay_ms,
              !.tuner_direction = b.tuner_direction,
              !.tuner_step_ms = b.tuner_step_ms,
              !.tuner_frozen = b.tuner_frozen,
              !.tuner_stable_windows = b.tuner_stable_windows,
              !.last_system_active_frame = b.last_system_active_frame,
              !.sys_frames_seen = b.sys_frames_seen,
              !.mic_frames_seen = b.mic_frames_seen,
              !.skipped_inactive_mic = b.skipped_inactive_mic,
              !.skipped_inactive_system = b.skipped_inactive_system]

\* The exploration window of the propose step (aec.rs lines 241-242).
TunerMinDelay(a) == Max(a.tuner_best_delay_ms - TunerWindowMs, 0)
\* An upper limit of the proposal that ignores the best delay.
MaxDelayAnywhere(a) == a.tuner_max_delay_ms

TunerMaxDelay(a) == Min(a.tuner_best_delay_ms + TunerWindowMs, a.tuner_max_delay_ms)

\* Step adaptation without its floor and ceiling.
AdaptStepUnbounded(a, erle) ==
    IF IsSome(a.tuner_last_erle)
    THEN IF erle + StepMargin < Unwrap(a.tuner_last_erle)
         THEN [a EXCEPT !.tuner_direction = -@, !.tuner_step_ms = @ - 1]
         ELSE IF erle > Unwrap(a.tuner_last_erle) + StepMargin
         THEN [a EXCEPT !.tuner_step_ms = @ + 1]
         ELSE a
    ELSE a

\* Step and direction adaptation on the raw ERLE (aec.rs lines 230-239).
TunerAdaptStep(a, erle) ==
    IF IsSome(a.tuner_last_erle)
    THEN LET last_erle == Unwrap(a.tuner_last_erle) IN
         IF erle + StepMargin < last_erle
         THEN [a EXCEPT !.tuner_direction = -@,
                        !.tuner_step_ms = Max(@ - 1, TunerMinStepMs)]
         ELSE IF erle > last_erle + StepMargin
         THEN [a EXCEPT !.tuner_step_ms = Min(@ + 1, TunerMaxStepMs)]
         ELSE a
    ELSE a

\* The propose step (aec.rs lines 241-254).  i32::clamp panics when
\* min_delay > max_delay: the call then unwinds with the state as it is.
TunerPropose(a, st, erle) ==
    LET min_delay == TunerMinDelay(a)
        max_delay == TunerMaxDelay(a)
    IN  IF min_delay > max_delay
        THEN [aec |-> a, stats |-> st, tuned |-> FALSE, panic |-> TRUE]
        ELSE
        LET next_delay == Clamp(a.applied_delay_ms + a.tuner_direction * a.tuner_step_ms,
                                min_delay, max_delay)
            a1 == [a EXCEPT !.tuner_last_erle = Some(erle)]
        IN  IF next_delay = a1.applied_delay_ms
            THEN [aec |-> [a1 EXCEPT !.tuner_direction = -@],
                  stats |-> st, tuned |-> FALSE, panic |-> FALSE]
            ELSE [aec |-> [a1 EXCEPT !.applied_delay_ms = next_delay],
                  stats |-> [st EXCEPT !.aec_tuner.tune_events = @ + 1],
                  tuned |-> TRUE, panic |-> FALSE]

\* Best tracking (aec.rs lines 190-201): the EMA, then the best ERLE.
TunerTrackBest(a, erle) ==
    LET ema == IF IsSome(a.tuner_erle_ema)
               THEN ErleEma(Unwrap(a.tuner_erle_ema), erle)
               ELSE erle
        a1 == [a EXCEPT !.tuner_erle_ema = Some(ema)]
    IN  IF (IF IsSome(a1.tuner_best_erle)
            THEN ema > Unwrap(a1.tuner_best_erle) + BestMargin
            ELSE TRUE)
        THEN [a1 EXCEPT !.tuner_best_erle = Some(ema),
                        !.tuner_best_delay_ms = a1.applied_delay_ms,
                        !.tuner_stable_windows = 0]
        ELSE a1

\* The stable-window count of the freeze check (aec.rs lines 204-209).
TunerCountStable(a) ==
    LET ema == Unwrap(a.tuner_erle_ema)
        best == Unwrap(a.tuner_best_erle)
    IN  IF best >= FreezeErle /\ Abs(ema - best) <= BestMargin
        THEN [a EXCEPT !.tuner_stable_windows = @ + 1]
        ELSE [a EXCEPT !.tuner_stable_windows = 0]

\* The freeze (aec.rs lines 211-216) and a freeze that leaves the applied
\* delay where the last step put it.
FreezeKeepingDelay(a, st) ==
    [aec |-> [a EXCEPT !.tuner_frozen = TRUE],
     stats |-> [st EXCEPT !.aec_tuner.freeze_events = @ + 1],
     tuned |-> TRUE, panic |-> FALSE]

TunerFreeze(a, st) ==
    [aec |-> [a EXCEPT !.applied_delay_ms = a.tuner_best_delay_ms,
                       !.tuner_frozen = TRUE],
     stats |-> [st EXCEPT !.aec_tuner.freeze_events = @ + 1],
     tuned |-> TRUE, panic |-> FALSE]

\* The rollback (aec.rs lines 221-227) and a rollback that keeps the
\* direction and the step.
RollbackKeepingDirection(a, st) ==
    [aec |-> [a EXCEPT !.applied_delay_ms = a.tuner_best_delay_ms],
     stats |-> [st EXCEPT !.aec_tuner.rollback_events = @ + 1],
     tuned |-> TRUE, panic |-> FALSE]

TunerRollback(a, st) ==
    [aec |-> [a EXCEPT !.applied_delay_ms = a.tuner_best_delay_ms,
                       !.tuner_direction = -@,
                       !.tuner_step_ms = Max(@ - 1, TunerMinStepMs)],
     stats |-> [st EXCEPT !.aec_tuner.rollback_events = @ + 1],
     tuned |-> TRUE, panic |-> FALSE]

\* tune_delay_on_the_fly without the check for unstable snapshots.
TuneAnySnapshot(a, st, erle, delay_inst_ms) ==
    LET a2 == TunerCountStable(TunerTrackBest(a, erle))
        ema == Unwrap(a2.tuner_erle_ema)
        best == Unwrap(a2.tuner_best_erle)
    IN  IF a2.tuner_stable_windows >= TunerFreezeWindows
        THEN TunerFreeze(a2, st)
        ELSE IF ema < best - RollbackDrop
                /\ a2.applied_delay_ms # a2.tuner_best_delay_ms
        THEN TunerRollback(a2, st)
        ELSE TunerPropose(TunerAdaptStep(a2, erle), st, erle)

\* tune_delay_on_the_fly(erle, delay_inst_ms): the new processor, the new
\* stats, the returned bool, and whether the call panicked.
tune_delay_on_the_fly(a, st, erle, delay_inst_ms) ==
    IF IsSome(delay_inst_ms) /\ Unwrap(delay_inst_ms) >= UnstableDelayMs
       /\ erle < UnstableErle
    THEN [aec |-> a, stats |-> st, tuned |-> FALSE, panic |-> FALSE]
    ELSE
    LET a2 == TunerCountStable(TunerTrackBest(a, erle))
        ema == Unwrap(a2.tuner_erle_ema)
        best == Unwrap(a2.tuner_best_erle)
    IN  IF a2.tuner_stable_windows >= TunerFreezeWindows
        THEN TunerFreeze(a2, st)
        ELSE IF ema < best - RollbackDrop
                /\ a2.applied_delay_ms # a2.tuner_best_delay_ms
        THEN TunerRollback(a2, st)
        ELSE TunerPropose(TunerAdaptStep(a2, erle), st, erle)

\* What the audio-processing module does to a capture frame it processed:
\* the samples change in place, their number and order do not.  The model
\* doubles each sample, so a processed sample can be told from its input;
\* an error leaves the frame as it was.
ApmProcessCapture(samples, capture_ok) ==
    IF capture_ok THEN [i \in DOMAIN samples |-> samples[i] * 2] ELSE samples

\* An activity test without the grace window: any active System frame so far.
SysActiveEver(a) == IsSome(a.last_system_active_frame)

\* sys_active_recently (aec.rs lines 93-96); saturating_sub of two u64.
SysActiveRecently(a) ==
    IF IsSome(a.last_system_active_frame)
    THEN Max(a.sys_frames_seen - Unwrap(a.last_system_active_frame), 0)
            <= SYSTEM_ACTIVITY_GRACE_FRAMES
    ELSE FALSE

\* A tune tick that goes on after the freeze.
TuneTickWhenFrozen(a) ==
    /\ a.config.aec_auto_delay_tuning
    /\ a.mic_frames_seen % a.tuner_interval_frames = 0

\* A tune tick on every Microphone frame.
TuneTickEveryFrame(a) ==
    /\ a.config.aec_auto_delay_tuning
    /\ ~a.tuner_frozen

\* tune_tick (aec.rs lines 103-105), on the frame count already incremented.
TuneTick(a) ==
    /\ a.config.aec_auto_delay_tuning
    /\ ~a.tuner_frozen
    /\ a.mic_frames_seen % a.tuner_interval_frames = 0

\* AecProcessor::process_frame.  apm_in is what the audio-processing module
\* answers on this frame: [capture_ok, erle, delay_ms], the last two being
\* the Option fields of get_stats().  The result holds the processor, the
\* stats, the returned Option<AudioFrame>, whether the tuner was called and
\* whether the call panicked.
process_frame(a, st, frame, apm_in) ==
    IF frame.source = System
    THEN LET a1 == [a EXCEPT !.sys_frames_seen = @ + 1]
             a2 == IF frame_is_active(frame.samples)
                   THEN [a1 EXCEPT !.last_system_active_frame = Some(a1.sys_frames_seen)]
                   ELSE a1
         IN  [aec |-> a2, stats |-> st, out |-> None,
              tuner_called |-> FALSE, panic |-> FALSE]
    ELSE LET a1 == [a EXCEPT !.mic_frames_seen = @ + 1]
             mic_active == frame_is_active(frame.samples)
             sys_active_recently == SysActiveRecently(a1)
             tune_tick == TuneTick(a1)
             should_tune == tune_tick /\ mic_active /\ sys_active_recently
             a2 == IF tune_tick
                   THEN [a1 EXCEPT
                           !.skipped_inactive_mic =
                               IF mic_active THEN @ ELSE @ + 1,
                           !.skipped_inactive_system =
                               IF sys_active_recently THEN @ ELSE @ + 1]
                   ELSE a1
             has_apm == IsSome(a2.apm)
             samples == IF has_apm
                        THEN ApmProcessCapture(frame.samples, apm_in.capture_ok)
                        ELSE frame.samples
             erle_snapshot == IF has_apm /\ should_tune THEN apm_in.erle ELSE None
             delay_snapshot == IF has_apm /\ should_tune THEN apm_in.delay_ms ELSE None
             out == [frame EXCEPT !.samples = samples]
         IN  IF should_tune /\ IsSome(erle_snapshot)
             THEN LET t == tune_delay_on_the_fly(a2, st, Unwrap(erle_snapshot),
                                                 delay_snapshot)
                      a3 == IF t.tuned /\ IsSome(t.aec.apm)
                            THEN [t.aec EXCEPT !.apm =
                                     Some(build_apm_config(t.aec.applied_delay_ms))]
                            ELSE t.aec
                  IN  IF t.panic
                      THEN [aec |-> t.aec, stats |-> t.stats, out |-> None,
                            tuner_called |-> TRUE, panic |-> TRUE]
                      ELSE [aec |-> a3,
                            stats |-> publish_tuner_stats(a3, t.stats,
                                         erle_snapshot, delay_snapshot),
                            out |-> Some(out),
                            tuner_called |-> TRUE, panic |-> FALSE]
             ELSE [aec |-> a2,
                   stats |-> publish_tuner_stats(a2, st, erle_snapshot,
                                                 delay_snapshot),
                   out |-> Some(out),
                   tuner_called |-> FALSE, panic |-> FALSE]

----------------------------------------------------------------------------
(* processors/noise_suppression.rs                                         *)

\* Processor::num_samples_per_frame of a 48 kHz processor: 10 ms.
NsSamplesPerFrame == 480

\* NoiseSuppressionProcessor::new
NoiseSuppressionProcessorNew(cfg) ==
    [apm |-> IF cfg.enable_ns THEN Some("ns") ELSE None, config |-> cfg]

\* NoiseSuppressionProcessor::process: the returned Option<AudioFrame>.
NoiseSuppressionProcess(ns, frame, capture_ok) ==
    IF IsSome(ns.apm)
    THEN IF Len(frame.samples) # NsSamplesPerFrame THEN Some(frame)
         ELSE IF frame.sample_rate # 48000 \/ frame.channels # 1 THEN Some(frame)
         ELSE Some([frame EXCEPT
                      !.samples = ApmProcessCapture(@, capture_ok)])
    ELSE Some(frame)

----------------------------------------------------------------------------
(* modular_pipeline.rs                                                     *)
(* A Box<dyn AudioProcessor> is a record [kind, state].  Every process and *)
(* drain_ready of the repository returns Ok, so the Err arms of the chain  *)
(* are never taken.  env is what the world answers during one pass: the    *)
(* answers of the audio-processing module and the time the clock shows.    *)

Processor(kind, state) == [kind |-> kind, state |-> state]

\* AudioProcessor::process of a boxed processor: the new processor, the
\* stats, the returned Option<AudioFrame> and whether the call panicked.
ProcessorProcess(p, frame, st, env) ==
    CASE p.kind = "timestamp" ->
            Bind(TimestampNormalizerProcess(p.state, frame), LAMBDA r :
                [processor |-> Processor(p.kind, r.normalizer), stats |-> st,
                 out |-> r.out, panic |-> FALSE])
      [] p.kind = "resample" ->
            Bind(ResampleProcessorProcess(p.state, frame), LAMBDA r :
                [processor |-> Processor(p.kind, r.processor), stats |-> st,
                 out |-> r.out, panic |-> FALSE])
      [] p.kind = "quantizer" ->
            Bind(FrameQuantizerProcess(p.state, frame), LAMBDA r :
                [processor |-> Processor(p.kind, r.quantizer), stats |-> st,
                 out |-> r.out, panic |-> FALSE])
      [] p.kind = "aec" ->
            Bind(process_frame(p.state, st, frame, env.apm), LAMBDA r :
                [processor |-> Processor(p.kind, r.aec), stats |-> r.stats,
                 out |-> r.out, panic |-> r.panic])
      [] p.kind = "ns" ->
            [processor |-> p, stats |-> st,
             out |-> NoiseSuppressionProcess(p.state, frame, env.apm.capture_ok),
             panic |-> FALSE]

\* AudioProcessor::drain_ready of a boxed processor.
ProcessorDrainReady(p) ==
    CASE p.kind = "resample" ->
            Bind(ResampleProcessorDrainReady(p.state), LAMBDA r :
                [processor |-> Processor(p.kind, r.processor), out |-> r.out])
      [] p.kind = "quantizer" ->
            Bind(FrameQuantizerDrainReady(p.state), LAMBDA r :
                [processor |-> Processor(p.kind, r.quantizer), out |-> r.out])
      [] OTHER -> [processor |-> p, out |-> None]

\* AudioProcessor::flush of a boxed processor.
ProcessorFlush(p) ==
    CASE p.kind = "resample" ->
            Bind(ResampleProcessorFlush(p.state), LAMBDA r :
                [processor |-> Processor(p.kind, r.processor), out |-> r.out])
      [] p.kind = "quantizer" ->
            Bind(FrameQuantizerFlush(p.state), LAMBDA r :
                [processor |-> Processor(p.kind, r.quantizer), out |-> r.out])
      [] OTHER -> [processor |-> p, out |-> <<>>]

\* ModularPipeline::select_total_pipeline_delay
select_total_pipeline_delay(input_timestamp, output_timestamp, processing_delay) ==
    LET timestamp_delay == SaturatingSub(output_timestamp, input_timestamp)
    IN  \* timestamp_delay < 10_000_000_000, both sides divided by 10
        IF timestamp_delay > 0 /\ timestamp_delay \div 10 < 1000000000
        THEN timestamp_delay ELSE processing_delay

\* ModularPipeline::stage_key; index counts from 0.
stage_key(index, has_webrtc, enable_aec, enable_ns) ==
    CASE index = 0 -> Some("timestamp_processor")
      [] index = 1 /\ has_webrtc -> Some("webrtc_resample_processor")
      [] index = 2 /\ has_webrtc -> Some("quantizer_processor")
      [] index = 3 /\ enable_aec /\ has_webrtc -> Some("aec_processor")
      [] index = 4 /\ enable_ns /\ has_webrtc -> Some("ns_processor")
      [] OTHER -> None

\* The stats.update of process_through_pipeline (lines 205-220).
RecordStage(st, key, processing_time) ==
    IF key = Some("timestamp_processor")
    THEN [st EXCEPT !.timestamp_processor = StageStatsRecord(@, processing_time)]
    ELSE IF key = Some("webrtc_resample_processor")
    THEN [st EXCEPT !.webrtc_resample_processor =
                        StageStatsRecord(@, processing_time)]
    ELSE IF key = Some("quantizer_processor")
    THEN [st EXCEPT !.quantizer_processor = StageStatsRecord(@, processing_time)]
    ELSE IF key = Some("aec_processor")
    THEN [st EXCEPT !.aec_processor = StageStatsRecord(@, processing_time)]
    ELSE IF key = Some("ns_processor")
    THEN [st EXCEPT !.ns_processor = StageStatsRecord(@, processing_time)]
    ELSE st

\* A main chain that hands the frames to the WebRTC stages as captured,
\* with neither the resampler nor the quantizer before them.
PipelineWithoutQuantizer(cfg, now, apm_ok) ==
    <<Processor("timestamp", TimestampNormalizerNew(now))>>
    \o (IF cfg.enable_aec
        THEN <<Processor("aec", AecProcessorNew(cfg, apm_ok))>> ELSE <<>>)
    \o (IF cfg.enable_ns
        THEN <<Processor("ns", NoiseSuppressionProcessorNew(cfg))>> ELSE <<>>)

\* ModularPipeline::new: the processors of the main chain.
PipelineProcessors(cfg, now, apm_ok) ==
    <<Processor("timestamp", TimestampNormalizerNew(now))>>
    \o (IF cfg.enable_aec \/ cfg.enable_ns
        THEN <<Processor("resample",
                  ResampleProcessorNew(48000, 48000, 1, System, TRUE))>>
        ELSE <<>>)
    \o (IF cfg.enable_aec \/ cfg.enable_ns
        THEN <<Processor("quantizer", for_webrtc)>> ELSE <<>>)
    \o (IF cfg.enable_aec
        THEN <<Processor("aec", AecProcessorNew(cfg, apm_ok))>> ELSE <<>>)
    \o (IF cfg.enable_ns
        THEN <<Processor("ns", NoiseSuppressionProcessorNew(cfg))>> ELSE <<>>)

\* ModularPipeline::create_system_pipeline, create_mic_pipeline
create_system_pipeline(cfg, resampler_ok) ==
    <<Processor("resample", from_config(cfg, System, resampler_ok))>>
create_mic_pipeline(cfg, resampler_ok) ==
    <<Processor("resample", from_config(cfg, Microphone, resampler_ok))>>

\* The for loop over the inputs of one processor (lines 198-230 and
\* 263-272): r holds the processor, the stats, the frames pushed so far and
\* whether a call panicked; timed is whether the stage time is recorded.
RECURSIVE ProcessInputs(_, _, _, _, _, _)
ProcessInputs(r, inputs, index, cfg, env, timed) ==
    IF inputs = <<>> \/ r.panic THEN r
    ELSE Bind(ProcessorProcess(r.processor, Head(inputs), r.stats, env),
              LAMBDA c :
                ProcessInputs(
                    [processor |-> c.processor,
                     stats |-> IF timed /\ IsSome(c.out)
                               THEN RecordStage(c.stats,
                                        stage_key(index,
                                            cfg.enable_aec \/ cfg.enable_ns,
                                            cfg.enable_aec, cfg.enable_ns),
                                        env.elapsed_ns)
                               ELSE c.stats,
                     next_frames |-> r.next_frames \o OptionFrames(c.out),
                     panic |-> c.panic],
                    Tail(inputs), index, cfg, env, timed))

\* A chain loop that takes what process() returned and does not call
\* drain_ready.
WithoutDrain(p, next_frames) == [processor |-> p, next_frames |-> next_frames]

\* The drain loop of one processor (lines 232-242 and 274-284).
RECURSIVE DrainLoop(_, _)
DrainLoop(p, next_frames) ==
    Bind(ProcessorDrainReady(p), LAMBDA d :
        IF IsSome(d.out)
        THEN DrainLoop(d.processor, Append(next_frames, Unwrap(d.out)))
        ELSE [processor |-> p, next_frames |-> next_frames])

\* A loop over the processors that, when a processor yields nothing, hands
\* its inputs on to the next processor.
RECURSIVE ChainLoopSkipping(_, _, _, _, _, _, _)
ChainLoopSkipping(chain, index, frames, st, cfg, env, timed) ==
    IF index >= Len(chain)
    THEN [processors |-> chain, stats |-> st, frames |-> frames,
          panic |-> FALSE]
    ELSE Bind(ProcessInputs([processor |-> chain[index + 1], stats |-> st,
                             next_frames |-> <<>>, panic |-> FALSE],
                            frames, index, cfg, env, timed),
              LAMBDA r :
        IF r.panic
        THEN [processors |-> [chain EXCEPT ![index + 1] = r.processor],
              stats |-> r.stats, frames |-> <<>>, panic |-> TRUE]
        ELSE Bind(DrainLoop(r.processor, r.next_frames), LAMBDA d :
            ChainLoopSkipping([chain EXCEPT ![index + 1] = d.processor],
                              index + 1,
                              IF d.next_frames = <<>> THEN frames
                              ELSE d.next_frames,
                              r.stats, cfg, env, timed)))

\* The loop over the processors of a chain, from the one at index (counted
\* from 0) on: the new processors, the stats, the frames that come out of
\* the chain and whether a call panicked.
RECURSIVE ChainLoop(_, _, _, _, _, _, _)
ChainLoop(chain, index, frames, st, cfg, env, timed) ==
    IF index >= Len(chain)
    THEN [processors |-> chain, stats |-> st, frames |-> frames,
          panic |-> FALSE]
    ELSE Bind(ProcessInputs([processor |-> chain[index + 1], stats |-> st,
                             next_frames |-> <<>>, panic |-> FALSE],
                            frames, index, cfg, env, timed),
              LAMBDA r :
        IF r.panic
        THEN [processors |-> [chain EXCEPT ![index + 1] = r.processor],
              stats |-> r.stats, frames |-> <<>>, panic |-> TRUE]
        ELSE Bind(DrainLoop(r.processor, r.next_frames), LAMBDA d :
            IF d.next_frames = <<>>
            THEN [processors |-> [chain EXCEPT ![index + 1] = d.processor],
                  stats |-> r.stats, frames |-> <<>>, panic |-> FALSE]
            ELSE ChainLoop([chain EXCEPT ![index + 1] = d.processor],
                           index + 1, d.next_frames, r.stats, cfg, env,
                           timed)))

\* ModularPipeline::process_through_pipeline
process_through_pipeline(chain, frame, st, cfg, env) ==
    ChainLoop(chain, 0, <<frame>>, st, cfg, env, TRUE)

\* ModularPipeline::process_through_processors_static
process_through_processors_static(chain, frame, st, cfg, env) ==
    ChainLoop(chain, 0, <<frame>>, st, cfg, env, FALSE)

\* ModularPipeline::to_numpy: "i16" scales the samples clamped to
\* [-1.0, 1.0] by i16::MAX and truncates; anything else copies them.
to_numpy(samples, format) ==
    IF format = "i16"
    THEN [i \in DOMAIN samples |->
            LET c == Clamp(samples[i], -AmpScale, AmpScale)
            IN  IF c >= 0 THEN (c * 32767) \div AmpScale
                ELSE -((-c * 32767) \div AmpScale)]
    ELSE samples

\* An emission that counts a callback that raised as a frame sent as well
\* as an error.
send_frame_counting_errors_as_sent(st, source_name, frame, cfg, outcome) ==
    [stats |->
        IF outcome = "gil_failure"
        THEN [st EXCEPT !.gil_acquire_failures = @ + 1]
        ELSE LET sent == IF source_name = "mic"
                         THEN [st EXCEPT !.frames_out_mic = @ + 1]
                         ELSE [st EXCEPT !.frames_out_system = @ + 1]
             IN  IF outcome = "ok" THEN sent
                 ELSE [sent EXCEPT !.callback_errors = @ + 1],
     calls |->
        <<[name |-> source_name, source |-> frame.source,
           samples |-> IF outcome = "gil_failure" THEN <<>>
                       ELSE to_numpy(frame.samples, cfg.sample_format),
           channels |-> frame.channels,
           invoked |-> outcome # "gil_failure"]>>]

\* ModularPipeline::send_frame_to_python: the new stats and the emission
\* made, with what the callback was called with and whether it was called.
\* outcome is "ok" (the callback returned), "callback_error" (it raised) or
\* "gil_failure" (try_attach gave None and the callback was not called).
send_frame_to_python(st, source_name, frame, cfg, outcome) ==
    [stats |->
        IF outcome = "ok"
        THEN IF source_name = "mic"
             THEN [st EXCEPT !.frames_out_mic = @ + 1]
             ELSE IF source_name = "system"
             THEN [st EXCEPT !.frames_out_system = @ + 1]
             ELSE st
        ELSE IF outcome = "callback_error"
        THEN [st EXCEPT !.callback_errors = @ + 1]
        ELSE [st EXCEPT !.gil_acquire_failures = @ + 1],
     calls |->
        <<[name |-> source_name, source |-> frame.source,
           samples |-> IF outcome = "gil_failure" THEN <<>>
                       ELSE to_numpy(frame.samples, cfg.sample_format),
           channels |-> frame.channels,
           invoked |-> outcome # "gil_failure"]>>]

\* for final_frame in final_frames { send_frame_to_python(..) }: the new
\* stats and the calls of the callback, after those of calls.
RECURSIVE SendFrames(_, _, _, _, _, _)
SendFrames(st, source_name, frames, cfg, outcome, calls) ==
    IF frames = <<>> THEN [stats |-> st, calls |-> calls]
    ELSE Bind(send_frame_to_python(st, source_name, Head(frames), cfg, outcome),
              LAMBDA r :
                SendFrames(r.stats, source_name, Tail(frames), cfg, outcome,
                           calls \o r.calls))

\* The calls of the callback, each marked with the place of the worker
\* that made it.
Via(calls, via) ==
    [i \in DOMAIN calls |->
        [name |-> calls[i].name, source |-> calls[i].source,
         samples |-> calls[i].samples, channels |-> calls[i].channels,
         invoked |-> calls[i].invoked, via |-> via]]

\* The callback name of a source.
SourceName(source) == IF source = System THEN "system" ELSE "mic"

\* The System arm of run (lines 138-153).  w holds the processors of the
\* three chains and the stats; the result adds the calls of the callback
\* and whether the worker panicked.
RunSystemFrame(w, frame, cfg, env, outcome) ==
    Bind(IF cfg.enable_aec
         THEN process_through_pipeline(w.processors, frame,
                  [w.stats EXCEPT !.frames_in_system = @ + 1], cfg, env)
         ELSE [processors |-> w.processors,
               stats |-> [w.stats EXCEPT !.frames_in_system = @ + 1],
               frames |-> <<>>, panic |-> FALSE],
         LAMBDA main :
    IF main.panic
    THEN [processors |-> main.processors, sys_pipeline |-> w.sys_pipeline,
          mic_pipeline |-> w.mic_pipeline, stats |-> main.stats,
          calls |-> <<>>, panic |-> TRUE]
    ELSE Bind(process_through_processors_static(w.sys_pipeline, frame,
                                                main.stats, cfg, env),
              LAMBDA final :
         Bind(SendFrames(final.stats, "system", final.frames, cfg, outcome,
                         <<>>),
              LAMBDA sent :
            [processors |-> main.processors,
             sys_pipeline |-> final.processors,
             mic_pipeline |-> w.mic_pipeline, stats |-> sent.stats,
             calls |-> Via(sent.calls, "system_final"), panic |-> FALSE])))

\* for processed_frame in processed_frames { .. } of run (lines 175-180).
RECURSIVE SendMicFrames(_, _, _, _, _, _)
SendMicFrames(r, frames, cfg, env, outcome, via) ==
    IF frames = <<>> THEN r
    ELSE Bind(process_through_processors_static(r.mic_pipeline, Head(frames),
                                                r.stats, cfg, env),
              LAMBDA final :
         Bind(SendFrames(final.stats, "mic", final.frames, cfg, outcome, <<>>),
              LAMBDA sent :
            SendMicFrames([r EXCEPT !.mic_pipeline = final.processors,
                                    !.stats = sent.stats,
                                    !.calls = @ \o Via(sent.calls, via)],
                          Tail(frames), cfg, env, outcome, via)))

\* The Microphone arm of run (lines 154-182).
RunMicFrame(w, frame, cfg, env, outcome) ==
    Bind(process_through_pipeline(w.processors, frame,
             [w.stats EXCEPT !.frames_in_mic = @ + 1], cfg, env),
         LAMBDA main :
    IF main.panic \/ main.frames = <<>>
    THEN [processors |-> main.processors, sys_pipeline |-> w.sys_pipeline,
          mic_pipeline |-> w.mic_pipeline, stats |-> main.stats,
          calls |-> <<>>, panic |-> main.panic]
    ELSE SendMicFrames(
            [processors |-> main.processors, sys_pipeline |-> w.sys_pipeline,
             mic_pipeline |-> w.mic_pipeline,
             stats |-> [main.stats EXCEPT
                          !.processing_time =
                              StageStatsRecord(@, env.elapsed_ns),
                          !.total_pipeline =
                              StageStatsRecord(@,
                                  select_total_pipeline_delay(frame.timestamp,
                                      main.frames[1].timestamp,
                                      env.elapsed_ns))],
             calls |-> <<>>, panic |-> FALSE],
            main.frames, cfg, env, outcome, "mic_final"))

\* for processor in chain { processor.flush() }: the new processors, the
\* frames flushed, and the kinds of the processors in the order flushed.
RECURSIVE FlushChain(_, _, _, _)
FlushChain(chain, i, frames, kinds) ==
    IF i > Len(chain)
    THEN [processors |-> chain, frames |-> frames, kinds |-> kinds]
    ELSE Bind(ProcessorFlush(chain[i]), LAMBDA f :
            FlushChain([chain EXCEPT ![i] = f.processor], i + 1,
                       frames \o f.out, Append(kinds, chain[i].kind)))

\* for frame in all_frames { .. } of flush_all_processors (lines 311-326).
RECURSIVE RouteFlushed(_, _, _, _, _)
RouteFlushed(r, all_frames, cfg, env, outcome) ==
    IF all_frames = <<>> THEN r
    ELSE IF Head(all_frames).source = System
    THEN Bind(process_through_processors_static(r.sys_pipeline,
                  Head(all_frames), r.stats, cfg, env),
              LAMBDA final :
         Bind(SendFrames(final.stats, "system", final.frames, cfg, outcome,
                         <<>>),
              LAMBDA sent :
            RouteFlushed([r EXCEPT !.sys_pipeline = final.processors,
                                   !.stats = sent.stats,
                                   !.calls = @ \o Via(sent.calls, "main_flush")],
                         Tail(all_frames), cfg, env, outcome)))
    ELSE RouteFlushed(
            SendMicFrames(r, <<Head(all_frames)>>, cfg, env, outcome,
                          "main_flush"),
            Tail(all_frames), cfg, env, outcome)

\* A flush that stops after the main chain: the frames flushed are routed
\* and delivered, and the final chains are left unflushed.
flush_main_chain_only(w, cfg, env, outcome) ==
    Bind(FlushChain(w.processors, 1, <<>>, <<>>), LAMBDA main :
    Bind(RouteFlushed([processors |-> main.processors,
                       sys_pipeline |-> w.sys_pipeline,
                       mic_pipeline |-> w.mic_pipeline,
                       stats |-> w.stats, calls |-> <<>>, panic |-> FALSE],
                      main.frames, cfg, env, outcome),
         LAMBDA routed :
        [processors |-> main.processors,
         sys_pipeline |-> routed.sys_pipeline,
         mic_pipeline |-> routed.mic_pipeline,
         stats |-> routed.stats,
         calls |-> routed.calls,
         all_frames |-> main.frames,
         flushed |-> [main |-> main.kinds, system |-> <<>>, mic |-> <<>>],
         panic |-> FALSE]))

\* ModularPipeline::flush_all_processors.  The result adds to the chains
\* and the stats the calls of the callback and the kinds of the processors
\* flushed, chain by chain.
flush_all_processors(w, cfg, env, outcome) ==
    Bind(FlushChain(w.processors, 1, <<>>, <<>>), LAMBDA main :
    Bind(RouteFlushed([processors |-> main.processors,
                       sys_pipeline |-> w.sys_pipeline,
                       mic_pipeline |-> w.mic_pipeline,
                       stats |-> w.stats, calls |-> <<>>, panic |-> FALSE],
                      main.frames, cfg, env, outcome),
         LAMBDA routed :
    Bind(FlushChain(routed.sys_pipeline, 1, <<>>, <<>>), LAMBDA sys :
    Bind(SendFrames(routed.stats, "system", sys.frames, cfg, outcome, <<>>),
         LAMBDA sys_sent :
    Bind(FlushChain(routed.mic_pipeline, 1, <<>>, <<>>), LAMBDA mic :
    Bind(SendFrames(sys_sent.stats, "mic", mic.frames, cfg, outcome, <<>>),
         LAMBDA mic_sent :
        [processors |-> main.processors,
         sys_pipeline |-> sys.processors,
         mic_pipeline |-> mic.processors,
         stats |-> mic_sent.stats,
         calls |-> routed.calls \o Via(sys_sent.calls, "final_flush")
                      \o Via(mic_sent.calls, "final_flush"),
         all_frames |-> main.frames,
         flushed |-> [main |-> main.kinds, system |-> sys.kinds,
                      mic |-> mic.kinds],
         panic |-> FALSE]))))))

----------------------------------------------------------------------------
(* The AecProcessor on its own.  One pipeline pass hands the processor the *)
(* quanta of one input frame, one process() call after the other           *)
(* (modular_pipeline.rs lines 198-230); reset() may be called between.     *)

MaxMicFrames == 450
MaxSysFrames == 32
MaxSysPasses == 2
MaxSkips == 1
MaxResets == 1

AecConfig(stream_delay, max_delay) ==
    [sample_rate |-> 16000, channels |-> 1, enable_aec |-> TRUE,
     enable_ns |-> FALSE, sample_format |-> "f32",
     aec_stream_delay_ms |-> stream_delay,
     aec_auto_delay_tuning |-> TRUE,
     aec_max_delay_ms |-> max_delay]

\* Configurations: the one of the tests of aec.rs, and an initial delay
\* above the maximum.
AecConfigs ==
    {AecConfig(10, 140), AecConfig(200, 140)}

\* One quantum, shortened to two samples: below the threshold, at it.
AecSamples == {<<0, -9>>, <<3, -10>>}

\* The number of quanta one input frame yields: one tuner interval.
MicBatchSizes == {TunerIntervalFrames}

\* What the audio-processing module answers: the capture call succeeds or
\* fails, and get_stats() reports an ERLE of 4.0 and a delay of 300 ms.
ApmAnswers ==
    {[capture_ok |-> ok, erle |-> Some(4000), delay_ms |-> Some(300)] :
        ok \in BOOLEAN}

\* process() on n equal frames in a row, from the result r of the calls
\* made so far; a panic ends the pass.
RECURSIVE AecProcessAll(_, _, _, _)
AecProcessAll(r, frame, apm_in, n) ==
    IF n = 0 \/ r.panic THEN r
    ELSE LET r1 == process_frame(r.aec, r.stats, frame, apm_in) IN
         AecProcessAll([r1 EXCEPT !.out = r.out \o @,
                                  !.tuner_called = r.tuner_called \/ @],
                       frame, apm_in, n - 1)

AecInit ==
    \E cfg \in AecConfigs, apm_ok \in BOOLEAN :
        /\ config = cfg
        /\ aec = AecProcessorNew(cfg, apm_ok)
        /\ stats = publish_tuner_stats(AecProcessorNew(cfg, apm_ok),
                                       RuntimeStatsDefault, None, None)
        /\ normalizer = TimestampNormalizerNew(0)
        /\ quantizer = for_webrtc
        /\ NoWorker
        /\ hist = [op |-> "new", tuner_called |-> FALSE,
                   panicked |-> FALSE, resets |-> 0, sys_passes |-> 0,
                   frame |-> None, apm_in |-> None, n |-> 0, out |-> <<>>,
                   before |-> None, stats_before |-> None]

\* One pass: n calls of process(); hist keeps the frame, the outputs of
\* the pass, and the processor and the stats as the last call found them.
AecProcess(frame, apm_in, n) ==
    \E r0 \in {AecProcessAll([aec |-> aec, stats |-> stats, out |-> <<>>,
                             tuner_called |-> FALSE, panic |-> FALSE],
                            frame, apm_in, n - 1)} :
    \E r \in {AecProcessAll(r0, frame, apm_in, 1)} :
    /\ ~hist.panicked
    /\ frame.source = System => hist.sys_passes < MaxSysPasses
    /\ r.aec.sys_frames_seen <= MaxSysFrames
    /\ r.aec.mic_frames_seen <= MaxMicFrames
    /\ r.aec.skipped_inactive_mic <= MaxSkips
    /\ r.aec.skipped_inactive_system <= MaxSkips
    /\ aec' = r.aec
    /\ stats' = r.stats
    /\ hist' = [hist EXCEPT !.op = frame.source,
                            !.tuner_called = r.tuner_called,
                            !.panicked = r.panic,
                            !.sys_passes =
                                IF frame.source = System THEN @ + 1 ELSE @,
                            !.frame = Some(frame),
                            !.apm_in =
                                Some([capture_ok |-> apm_in.capture_ok,
                                      erle |-> apm_in.erle,
                                      delay_ms |-> apm_in.delay_ms]),
                            !.n = n,
                            !.out = r.out,
                            !.before = Some(r0.aec),
                            !.stats_before = Some(r0.stats)]
    /\ UNCHANGED <<config, normalizer, quantizer, workerVars, hostVars>>

AecSystemFrame ==
    \E samples \in AecSamples :
        AecProcess(AudioFrame(System, samples, 48000, 1, 0),
                   [capture_ok |-> TRUE, erle |-> None, delay_ms |-> None], 1)

AecMicFrames ==
    \E samples \in AecSamples, apm_in \in ApmAnswers, n \in MicBatchSizes :
        AecProcess(AudioFrame(Microphone, samples, 48000, 1, 0), apm_in, n)

AecReset ==
    /\ ~hist.panicked
    /\ hist.resets < MaxResets
    /\ aec' = AecProcessorReset(aec)
    /\ stats' = publish_tuner_stats(AecProcessorReset(aec), stats, None, None)
    /\ hist' = [hist EXCEPT !.op = "reset", !.tuner_called = FALSE,
                            !.resets = @ + 1,
                            !.frame = None, !.apm_in = None, !.n = 0,
                            !.out = <<>>,
                            !.before = Some(aec),
                            !.stats_before = Some(stats)]
    /\ UNCHANGED <<config, normalizer, quantizer, workerVars, hostVars>>

AecNext == AecSystemFrame \/ AecMicFrames \/ AecReset

SpecAec == AecInit /\ [][AecNext]_vars

\* C1: the applied delay is never negative and never above the tuner's
\* maximum delay, whatever the configuration.
C1_AppliedDelayInRange ==
    /\ aec.applied_delay_ms >= 0
    /\ aec.applied_delay_ms <= aec.tuner_max_delay_ms

\* C2: once the tuner is frozen, every step other than reset() leaves it
\* frozen, leaves the applied delay, the best delay, the step and the
\* direction as they are, does not call the tuner and does not count a
\* skipped tick.
C2_FrozenAbsorbing ==
    [][(aec.tuner_frozen /\ hist'.op # "reset") =>
          /\ aec'.tuner_frozen
          /\ aec'.applied_delay_ms = aec.applied_delay_ms
          /\ aec'.tuner_best_delay_ms = aec.tuner_best_delay_ms
          /\ aec'.tuner_step_ms = aec.tuner_step_ms
          /\ aec'.tuner_direction = aec.tuner_direction
          /\ ~hist'.tuner_called
          /\ aec'.skipped_inactive_mic = aec.skipped_inactive_mic
          /\ aec'.skipped_inactive_system = aec.skipped_inactive_system]_vars

\* A whole tuner interval of microphone frames, a tick included, went
\* through the frozen processor.
C2_FrozenTickPassed ==
    /\ aec.tuner_frozen
    /\ hist.op = Microphone
    /\ ~hist.tuner_called
    /\ aec.mic_frames_seen = (TunerFreezeWindows + 1) * TunerIntervalFrames

\* C3: no call panics: no arithmetic overflows and the bounds handed to
\* clamp are ordered, also when the initial delay is above the maximum.
C3_NoPanic == ~hist.panicked

\* C16: process() emits exactly for Microphone frames: a pass of System
\* frames yields no frame, and a pass of n Microphone frames yields n
\* frames, each of the source, the length and the timestamp of its input,
\* with or without an audio-processing module and whether or not its
\* capture call fails; no call ends without its result.
C16_EmitsIffMicrophone ==
    /\ hist.op = System => hist.out = <<>>
    /\ hist.op = Microphone =>
          /\ Len(hist.out) = hist.n
          /\ \A i \in DOMAIN hist.out :
                /\ hist.out[i].source = Microphone
                /\ Len(hist.out[i].samples) = Len(Unwrap(hist.frame).samples)
                /\ hist.out[i].timestamp = Unwrap(hist.frame).timestamp

\* C19: after reset() every tuner field has its value right after
\* construction: applied and best delay max(aec_stream_delay_ms, 0), step
\* 5, direction +1, not frozen, no stable window, no last, EMA or best
\* ERLE, frame and skip counters 0, interval and maximum as constructed;
\* and the published snapshot shows these values.
C19_ResetRestoresBaseline ==
    hist.op = "reset" =>
        /\ aec.applied_delay_ms = Max(config.aec_stream_delay_ms, 0)
        /\ aec.tuner_best_delay_ms = Max(config.aec_stream_delay_ms, 0)
        /\ aec.tuner_step_ms = 5
        /\ aec.tuner_direction = 1
        /\ ~aec.tuner_frozen
        /\ aec.tuner_stable_windows = 0
        /\ aec.tuner_last_erle = None
        /\ aec.tuner_erle_ema = None
        /\ aec.tuner_best_erle = None
        /\ aec.last_system_active_frame = None
        /\ aec.sys_frames_seen = 0
        /\ aec.mic_frames_seen = 0
        /\ aec.skipped_inactive_mic = 0
        /\ aec.skipped_inactive_system = 0
        /\ [aec EXCEPT !.apm = None]
              = [AecProcessorNew(config, FALSE) EXCEPT !.apm = None]
        /\ [stats.aec_tuner EXCEPT !.tune_events = 0, !.rollback_events = 0,
                                   !.freeze_events = 0]
              = publish_tuner_stats(AecProcessorNew(config, FALSE),
                                    RuntimeStatsDefault, None, None).aec_tuner
        /\ stats.aec_tuner.applied_delay_ms
              = Max(config.aec_stream_delay_ms, 0)
        /\ stats.aec_tuner.last_erle = None
        /\ stats.aec_tuner.skipped_inactive_mic = 0

\* reset() on a processor whose tuner had moved the delay, seen an ERLE
\* and skipped a tick.
C19_ResetAfterTuning ==
    /\ hist.op = "reset"
    /\ Unwrap(hist.before).applied_delay_ms
          # Max(config.aec_stream_delay_ms, 0)
    /\ IsSome(Unwrap(hist.before).tuner_last_erle)
    /\ Unwrap(hist.before).skipped_inactive_mic > 0
    /\ Unwrap(hist.before).mic_frames_seen > 0

----------------------------------------------------------------------------
(* The tuner of the AecProcessor under the inputs of the tests of aec.rs:  *)
(* System passes long enough to leave the grace window of the activity     *)
(* test, and an audio-processing module reporting an ERLE of 2.0.          *)

\* The number of quanta one System input frame yields: one, as many as
\* the grace window of the activity test has frames, or one more.
SysBatchSizes ==
    {1, SYSTEM_ACTIVITY_GRACE_FRAMES, SYSTEM_ACTIVITY_GRACE_FRAMES + 1}

\* get_stats() reports an ERLE of 2.0 and a delay of 10 ms.
TunerApmAnswers ==
    {[capture_ok |-> TRUE, erle |-> Some(2000), delay_ms |-> Some(10)]}

TunerSystemFrames ==
    \E samples \in AecSamples, n \in SysBatchSizes :
        AecProcess(AudioFrame(System, samples, 48000, 1, 0),
                   [capture_ok |-> TRUE, erle |-> None, delay_ms |-> None], n)

TunerMicFrames ==
    \E samples \in AecSamples, apm_in \in TunerApmAnswers,
       n \in MicBatchSizes :
        AecProcess(AudioFrame(Microphone, samples, 48000, 1, 0), apm_in, n)

TunerNext == TunerSystemFrames \/ TunerMicFrames \/ AecReset

SpecTuner == AecInit /\ [][TunerNext]_vars

\* The last call of the last pass was a scheduled tick: tuning enabled,
\* tuner not frozen, Microphone frame count a multiple of the interval.
ScheduledTick ==
    /\ hist.op = Microphone
    /\ IsSome(hist.before)
    /\ Unwrap(hist.before).config.aec_auto_delay_tuning
    /\ ~Unwrap(hist.before).tuner_frozen
    /\ (Unwrap(hist.before).mic_frames_seen + 1)
          % Unwrap(hist.before).tuner_interval_frames = 0

\* The Microphone frame of the tick has no sample of magnitude >= 1e-4.
TickMicInactive ==
    \A i \in DOMAIN Unwrap(hist.frame).samples :
        Abs(Unwrap(hist.frame).samples[i]) < SIGNAL_ACTIVITY_THRESHOLD

\* No System frame was active within the last 30 System frames: none was
\* active at all, or the last active one lies more than 30 frames back.
TickSystemStale ==
    LET b == Unwrap(hist.before) IN
    \/ b.last_system_active_frame = None
    \/ b.sys_frames_seen - Unwrap(b.last_system_active_frame)
          > SYSTEM_ACTIVITY_GRACE_FRAMES

\* The tuner's own fields of the processor and its event counters.
TunerFields(a) ==
    <<a.applied_delay_ms, a.tuner_last_erle, a.tuner_erle_ema,
      a.tuner_best_erle, a.tuner_best_delay_ms, a.tuner_direction,
      a.tuner_step_ms, a.tuner_interval_frames, a.tuner_max_delay_ms,
      a.tuner_frozen, a.tuner_stable_windows>>

TunerEvents(st) ==
    <<st.aec_tuner.tune_events, st.aec_tuner.rollback_events,
      st.aec_tuner.freeze_events>>

\* C17: a scheduled tick that is not active (inactive Microphone frame, or
\* no System frame active within the last 30 System frames) leaves the
\* applied delay, every other tuner field and the event counters as they
\* were and does not call the tuner; skipped_inactive_mic grows by one
\* exactly when the Microphone frame is inactive and
\* skipped_inactive_system by one exactly when the System stream was not
\* recently active.
C17_InactiveTickOnlyCounts ==
    (ScheduledTick /\ (TickMicInactive \/ TickSystemStale)) =>
        /\ ~hist.panicked
        /\ ~hist.tuner_called
        /\ TunerFields(aec) = TunerFields(Unwrap(hist.before))
        /\ TunerEvents(stats) = TunerEvents(Unwrap(hist.stats_before))
        /\ aec.skipped_inactive_mic =
              Unwrap(hist.before).skipped_inactive_mic
                + (IF TickMicInactive THEN 1 ELSE 0)
        /\ aec.skipped_inactive_system =
              Unwrap(hist.before).skipped_inactive_system
                + (IF TickSystemStale THEN 1 ELSE 0)

\* A tick with an inactive Microphone frame and a System stream whose last
\* active frame lies 31 frames back, on a tuner that had moved the delay.
C17_BothSkippedAfterTuning ==
    /\ ScheduledTick
    /\ TickMicInactive
    /\ TickSystemStale
    /\ IsSome(aec.last_system_active_frame)
    /\ aec.sys_frames_seen - Unwrap(aec.last_system_active_frame)
          = SYSTEM_ACTIVITY_GRACE_FRAMES + 1
    /\ aec.applied_delay_ms # Max(config.aec_stream_delay_ms, 0)
    /\ aec.skipped_inactive_mic = 1
    /\ aec.skipped_inactive_system = 1

\* The last call of the last pass was an active tick on which the
\* audio-processing module reported an ERLE: the tuner was called.
ActiveTick ==
    /\ ScheduledTick
    /\ ~TickMicInactive
    /\ ~TickSystemStale
    /\ IsSome(Unwrap(hist.before).apm)
    /\ IsSome(Unwrap(hist.apm_in).erle)

TickErle == Unwrap(Unwrap(hist.apm_in).erle)

\* The tuner as the tick's call finds it, after best tracking and the
\* stable-window count, and then after the step adaptation.
TickTracked ==
    TunerCountStable(TunerTrackBest(Unwrap(hist.before), TickErle))

TickAdapted == TunerAdaptStep(TickTracked, TickErle)

\* The tick is rejected, a freeze, or a rollback.
TickRejected ==
    /\ IsSome(Unwrap(hist.apm_in).delay_ms)
    /\ Unwrap(Unwrap(hist.apm_in).delay_ms) >= UnstableDelayMs
    /\ TickErle < UnstableErle

TickFreezes == TickTracked.tuner_stable_windows >= TunerFreezeWindows

TickRollsBack ==
    /\ Unwrap(TickTracked.tuner_erle_ema)
          < Unwrap(TickTracked.tuner_best_erle) - RollbackDrop
    /\ TickTracked.applied_delay_ms # TickTracked.tuner_best_delay_ms

ProposeTick ==
    ActiveTick /\ ~TickRejected /\ ~TickFreezes /\ ~TickRollsBack

\* next of the propose step, the clamp taken as lo when below lo and as hi
\* when above hi.
TickNextDelay ==
    LET p == TickAdapted
        lo == Max(p.tuner_best_delay_ms - TunerWindowMs, 0)
        hi == Min(p.tuner_best_delay_ms + TunerWindowMs, p.tuner_max_delay_ms)
        x == p.applied_delay_ms + p.tuner_direction * p.tuner_step_ms
    IN  IF x < lo THEN lo ELSE IF x > hi THEN hi ELSE x

\* C18: the propose step: with next the clamp of applied + direction*step
\* into [max(best - 40, 0), min(best + 40, max_delay_ms)], if next equals
\* the applied delay the direction is flipped, the applied delay and
\* tune_events stay and the call returns "unchanged" (the module is not
\* reconfigured); otherwise the applied delay becomes next, tune_events
\* grows by one and the call returns "changed" (the module is reconfigured
\* with next).  From the baseline of a fresh processor (applied 10, step
\* 5, direction +1), one call with ERLE 2.0 and delay 10 gives applied 15
\* and tune_events 1.
C18_ProposeStep ==
    ProposeTick =>
        /\ ~hist.panicked
        /\ hist.tuner_called
        /\ IF TickNextDelay = TickAdapted.applied_delay_ms
           THEN /\ aec.tuner_direction = -TickAdapted.tuner_direction
                /\ aec.applied_delay_ms = TickAdapted.applied_delay_ms
                /\ stats.aec_tuner.tune_events
                      = Unwrap(hist.stats_before).aec_tuner.tune_events
                /\ aec.apm = Unwrap(hist.before).apm
           ELSE /\ aec.tuner_direction = TickAdapted.tuner_direction
                /\ aec.applied_delay_ms = TickNextDelay
                /\ stats.aec_tuner.tune_events
                      = Unwrap(hist.stats_before).aec_tuner.tune_events + 1
                /\ aec.apm = Some(build_apm_config(TickNextDelay))
        /\ ( /\ Unwrap(hist.before).applied_delay_ms = 10
             /\ Unwrap(hist.before).tuner_best_delay_ms = 10
             /\ Unwrap(hist.before).tuner_step_ms = 5
             /\ Unwrap(hist.before).tuner_direction = 1
             /\ Unwrap(hist.before).tuner_erle_ema = None
             /\ Unwrap(hist.stats_before).aec_tuner.tune_events = 0
             /\ TickErle = 2000
             /\ Unwrap(hist.apm_in).delay_ms = Some(10) )
            => /\ aec.applied_delay_ms = 15
               /\ stats.aec_tuner.tune_events = 1

----------------------------------------------------------------------------
(* The TimestampNormalizer on its own: frames of both sources with any raw *)
(* timestamps in any order, and resets.                                    *)

\* The raw timestamps of the test of timestamp.rs, and one between them.
RawTimestamps == {1000, 1200, 1500, 5000, 5700}

\* What the system clock answers at construction and at reset.
ClockAnswers == {1000000, 2000000}

NoOutputs == [s \in AudioSourceType |-> None]

TsInit ==
    \E now \in ClockAnswers :
        /\ normalizer = TimestampNormalizerNew(now)
        /\ config = AecConfig(0, 0)
        /\ aec = AecProcessorNew(AecConfig(0, 0), TRUE)
        /\ stats = RuntimeStatsDefault
        /\ quantizer = for_webrtc
        /\ NoWorker
        /\ hist = [op |-> "new", frame |-> None, out |-> None,
                   first_out |-> NoOutputs, prev_out |-> NoOutputs,
                   last_out |-> NoOutputs]

TsProcess ==
    \E source \in AudioSourceType, ts \in RawTimestamps :
        LET frame == AudioFrame(source, <<>>, 48000, 1, ts)
            r == TimestampNormalizerProcess(normalizer, frame)
            t == Unwrap(r.out).timestamp
        IN  /\ normalizer' = r.normalizer
            /\ hist' = [op |-> "process", frame |-> Some(frame), out |-> r.out,
                        first_out |->
                            IF IsSome(hist.first_out[source]) THEN hist.first_out
                            ELSE [hist.first_out EXCEPT ![source] = Some(t)],
                        prev_out |->
                            [hist.prev_out EXCEPT ![source] = hist.last_out[source]],
                        last_out |-> [hist.last_out EXCEPT ![source] = Some(t)]]
            /\ UNCHANGED <<config, aec, stats, quantizer, workerVars, hostVars>>

TsReset ==
    \E now \in ClockAnswers :
        /\ normalizer' = TimestampNormalizerReset(normalizer, now)
        /\ hist' = [op |-> "reset", frame |-> None, out |-> None,
                    first_out |-> NoOutputs, prev_out |-> NoOutputs,
                    last_out |-> NoOutputs]
        /\ UNCHANGED <<config, aec, stats, quantizer, workerVars, hostVars>>

TsNext == TsProcess \/ TsReset

SpecTimestamp == TsInit /\ [][TsNext]_vars

\* The anchor a normalizer holds for a source.
TsAnchor(n, source) ==
    IF source = System THEN n.first_sys_timestamp ELSE n.first_mic_timestamp

\* C6: every output timestamp of a source is at least the output timestamp
\* of that source's first frame, and the output timestamps of one source
\* never decrease.
C6_OutputsNonDecreasing ==
    \A s \in AudioSourceType :
        IsSome(hist.last_out[s]) =>
            /\ Unwrap(hist.last_out[s]) >= Unwrap(hist.first_out[s])
            /\ IsSome(hist.prev_out[s]) =>
                  Unwrap(hist.last_out[s]) >= Unwrap(hist.prev_out[s])

\* C7: the first frame of a source comes out with the epoch and sets that
\* source's anchor; a later frame comes out with the epoch plus
\* max(raw - anchor, 0) and leaves the anchor; the other source's anchor is
\* never touched, and the first outputs of both sources are equal.
C7_RebasedOnSharedEpoch ==
    [][hist'.op = "process" =>
          LET f == Unwrap(hist'.frame)
              s == f.source
              o == IF s = System THEN Microphone ELSE System
              anchor == TsAnchor(normalizer, s)
              epoch_ns == normalizer.normalized_start_time
              out == Unwrap(hist'.out)
          IN  /\ out.timestamp =
                    IF IsSome(anchor)
                    THEN epoch_ns + Max(f.timestamp - Unwrap(anchor), 0)
                    ELSE epoch_ns
              /\ TsAnchor(normalizer', s) =
                    IF IsSome(anchor) THEN anchor ELSE Some(f.timestamp)
              /\ TsAnchor(normalizer', o) = TsAnchor(normalizer, o)
              /\ normalizer'.normalized_start_time = epoch_ns
              /\ \A a, b \in AudioSourceType :
                    IsSome(hist'.first_out[a]) /\ IsSome(hist'.first_out[b])
                        => hist'.first_out[a] = hist'.first_out[b]
              /\ [out EXCEPT !.timestamp = f.timestamp] = f]_vars

\* Both sources are anchored, at different raw timestamps, and a frame
\* whose raw timestamp is below its source's anchor came out.
C7_BothAnchoredAndRegressed ==
    /\ hist.op = "process"
    /\ IsSome(normalizer.first_sys_timestamp)
    /\ IsSome(normalizer.first_mic_timestamp)
    /\ normalizer.first_sys_timestamp # normalizer.first_mic_timestamp
    /\ Unwrap(hist.frame).timestamp
         < Unwrap(TsAnchor(normalizer, Unwrap(hist.frame).source))
    /\ Unwrap(hist.out).timestamp = normalizer.normalized_start_time

----------------------------------------------------------------------------
(* The FrameQuantizer on its own: process, drain_ready, flush and reset in *)
(* any order.  The samples of a source are numbered 1, 2, ... in the order *)
(* received since construction or reset, so a zero is padding.             *)

MaxFrameLen == 3        \* samples per channel of one input frame
MaxReceived == 5        \* samples per channel received from one source
                        \* since construction or reset

\* with_quantum_size(quantum, rate, channels): mono and stereo.
QuantizerConfigs ==
    {with_quantum_size(2, 48000, 1), with_quantum_size(3, 48000, 2), for_webrtc}

QuantizerTimestamps == {1000000, 3000000}

\* The input frames of a quantizer hold a multiple of FrameUnit samples per
\* channel: half a quantum for for_webrtc(), one sample for the small quanta.
FrameUnit(q) == IF q.quantum_size = 480 THEN 240 ELSE 1

\* The number of frames of one source among frames.
RECURSIVE FramesOf(_, _)
FramesOf(frames, source) ==
    IF frames = <<>> THEN 0
    ELSE (IF Head(frames).source = source THEN 1 ELSE 0)
            + FramesOf(Tail(frames), source)

NoSamples == [s \in AudioSourceType |-> <<>>]

\* The samples of the frames of one source, in the order of the frames.
RECURSIVE SamplesOf(_, _)
SamplesOf(frames, source) ==
    IF frames = <<>> THEN <<>>
    ELSE (IF Head(frames).source = source THEN Head(frames).samples ELSE <<>>)
            \o SamplesOf(Tail(frames), source)

\* The account since the last flush or reset.
QAccount ==
    IF hist.op \in {"flush", "reset"}
    THEN [received |-> NoSamples, emitted |-> NoSamples]
    ELSE [received |-> hist.received, emitted |-> hist.emitted]

\* The history after an operation that returned the frames out.
QHist(op, accepted, received, out) ==
    [op |-> op, accepted |-> accepted, out |-> out,
     total |-> [s \in AudioSourceType |->
                  hist.total[s] + Len(received[s]) - Len(QAccount.received[s])],
     received |-> received,
     emitted |-> [s \in AudioSourceType |->
                    QAccount.emitted[s] \o SamplesOf(out, s)],
     first_ts |-> hist.first_ts,
     quanta |-> [s \in AudioSourceType |-> hist.quanta[s] + FramesOf(out, s)],
     flushed |-> hist.flushed \/ op = "flush",
     frame_ts |-> None]

QInit ==
    \E q \in QuantizerConfigs :
        /\ quantizer = q
        /\ config = AecConfig(0, 0)
        /\ aec = AecProcessorNew(AecConfig(0, 0), TRUE)
        /\ stats = RuntimeStatsDefault
        /\ normalizer = TimestampNormalizerNew(0)
        /\ NoWorker
        /\ hist = [op |-> "new", accepted |-> FALSE, out |-> <<>>,
                   total |-> [s \in AudioSourceType |-> 0],
                   received |-> NoSamples, emitted |-> NoSamples,
                   first_ts |-> NoOutputs,
                   quanta |-> [s \in AudioSourceType |-> 0],
                   flushed |-> FALSE, frame_ts |-> None]

\* process() on a frame of the expected format.  flush() is called once, at
\* shutdown (ModularPipeline::run, modular_pipeline.rs line 187): no
\* frame is processed between a flush and the next reset.
QProcessAccepted ==
    \E source \in AudioSourceType, n \in 1..MaxFrameLen,
       ts \in QuantizerTimestamps :
        LET had == hist.total[source]
            len == n * FrameUnit(quantizer) * quantizer.expected_channels
            samples == [i \in 1..len |-> had + i]
            frame == AudioFrame(source, samples, quantizer.expected_sample_rate,
                                quantizer.expected_channels, ts)
            r == FrameQuantizerProcess(quantizer, frame)
        IN  /\ ~hist.flushed
            /\ had + len <= MaxReceived * FrameUnit(quantizer)
                                * quantizer.expected_channels
            /\ quantizer' = r.quantizer
            /\ hist' = [QHist("process", TRUE,
                              [QAccount.received EXCEPT ![source] = @ \o samples],
                              OptionFrames(r.out))
                        EXCEPT !.first_ts[source] =
                                   IF IsSome(@) THEN @ ELSE Some(ts),
                               !.frame_ts = Some(ts)]
            /\ UNCHANGED <<config, aec, stats, normalizer, workerVars, hostVars>>

\* process() on a frame of another sample rate or channel count.
QProcessRejected ==
    \E source \in AudioSourceType, wrong_rate \in BOOLEAN :
        LET frame == IF wrong_rate
                     THEN AudioFrame(source, <<1, 1>>, 44100,
                                     quantizer.expected_channels, 0)
                     ELSE AudioFrame(source, <<1, 1>>,
                                     quantizer.expected_sample_rate,
                                     3 - quantizer.expected_channels, 0)
            r == FrameQuantizerProcess(quantizer, frame)
        IN  /\ quantizer' = r.quantizer
            /\ hist' = QHist("process", FALSE, QAccount.received,
                             OptionFrames(r.out))
            /\ UNCHANGED <<config, aec, stats, normalizer, workerVars, hostVars>>

QDrainReady ==
    LET r == FrameQuantizerDrainReady(quantizer)
    IN  /\ quantizer' = r.quantizer
        /\ hist' = QHist("drain_ready", FALSE, QAccount.received,
                         OptionFrames(r.out))
        /\ UNCHANGED <<config, aec, stats, normalizer, workerVars, hostVars>>

QFlush ==
    LET r == FrameQuantizerFlush(quantizer)
    IN  /\ quantizer' = r.quantizer
        /\ hist' = QHist("flush", FALSE, QAccount.received, r.out)
        /\ UNCHANGED <<config, aec, stats, normalizer, workerVars, hostVars>>

QReset ==
    /\ quantizer' = FrameQuantizerReset(quantizer)
    /\ hist' = [op |-> "reset", accepted |-> FALSE, out |-> <<>>,
                total |-> [s \in AudioSourceType |-> 0],
                received |-> NoSamples, emitted |-> NoSamples,
                first_ts |-> NoOutputs,
                quanta |-> [s \in AudioSourceType |-> 0],
                flushed |-> FALSE, frame_ts |-> None]
    /\ UNCHANGED <<config, aec, stats, normalizer, workerVars, hostVars>>

QNext == QProcessAccepted \/ QProcessRejected \/ QDrainReady \/ QFlush \/ QReset

SpecQuantizer == QInit /\ [][QNext]_vars

\* A sequence of n zeros.
Zeros(n) == [i \in 1..n |-> 0]

\* C8: the samples emitted for a source, then those of its quanta waiting
\* in the ready queue, then those in its buffer, are the samples received
\* for it, in order; after the flush nothing waits and the samples emitted
\* are the samples received followed by at most quantum-1 zeros.
C8_SamplesConserved ==
    \A s \in AudioSourceType :
        IF hist.op = "flush"
        THEN /\ quantizer.ready_queue = <<>>
             /\ source_state(quantizer, s).sample_buffer = <<>>
             /\ \E k \in 0..(quantizer.quantum_size - 1) :
                    hist.emitted[s] = hist.received[s] \o Zeros(k)
        ELSE QAccount.emitted[s]
                \o SamplesOf(quantizer.ready_queue, s)
                \o source_state(quantizer, s).sample_buffer
             = QAccount.received[s]

\* Both sources sent more than a quantum, not a whole number of quanta,
\* and the flush padded what was left of each.
C8_FlushedWithPadding ==
    /\ hist.op = "flush"
    /\ \A s \in AudioSourceType :
          /\ Len(hist.received[s]) > quantizer.quantum_size
          /\ Len(hist.emitted[s]) > Len(hist.received[s])

\* C9: every frame a FrameQuantizer emits holds quantum * channels samples
\* and carries the expected sample rate and channel count.
C9_QuantumTimesChannels ==
    \A i \in DOMAIN hist.out :
        /\ Len(hist.out[i].samples)
             = quantizer.quantum_size * quantizer.expected_channels
        /\ hist.out[i].sample_rate = quantizer.expected_sample_rate
        /\ hist.out[i].channels = quantizer.expected_channels

----------------------------------------------------------------------------
(* The worker: AudioEngine::start has spawned run(); the capture handlers  *)
(* send frames into the input channel, stop() puts the signal into the     *)
(* stop channel, the capture ends, and the worker takes one frame per      *)
(* iteration of its loop until the select makes it break, then flushes.    *)
(* The samples of a source are numbered 1, 2, ... in the order captured    *)
(* (the same number on every channel of a frame), so a zero is padding.    *)

MaxFramesPerSource == 2     \* frames one capture handler sends

\* Frames per channel of a captured buffer: a quantum of 480 and a
\* remainder of 20.
CaptureLens == {500}

\* Channels of the captured buffers of a source.
CaptureChannels(source) == IF source = System THEN 2 ELSE 1

\* Presentation time of the first buffer of a source.
CaptureStart(source) == IF source = System THEN 1000 ELSE 5000

PipelineConfig(channels, enable_aec, enable_ns) ==
    [sample_rate |-> 48000, channels |-> channels, enable_aec |-> enable_aec,
     enable_ns |-> enable_ns, sample_format |-> "f32",
     aec_stream_delay_ms |-> 0, aec_auto_delay_tuning |-> FALSE,
     aec_max_delay_ms |-> 140]

\* The default configuration, AEC alone, and AEC with NS.
PipelineConfigs ==
    {PipelineConfig(2, FALSE, FALSE), PipelineConfig(2, TRUE, FALSE),
     PipelineConfig(1, TRUE, TRUE)}

\* What the world answers during one iteration of the worker.
PipelineEnvs ==
    {[apm |-> [capture_ok |-> TRUE, erle |-> None, delay_ms |-> None],
      elapsed_ns |-> 1000]}

CallbackOutcomes == {"ok", "callback_error", "gil_failure"}

\* The worker's chains and stats as one record, and back.
Worker ==
    [processors |-> processors, sys_pipeline |-> sys_pipeline,
     mic_pipeline |-> mic_pipeline, stats |-> stats]

WorkerBecomes(r) ==
    /\ processors' = r.processors
    /\ sys_pipeline' = r.sys_pipeline
    /\ mic_pipeline' = r.mic_pipeline
    /\ stats' = r.stats

PipelineInit ==
    \E cfg \in PipelineConfigs, outcome \in CallbackOutcomes :
        /\ config = cfg
        /\ callback = outcome
        /\ processors = PipelineProcessors(cfg, 1000000, TRUE)
        /\ sys_pipeline = create_system_pipeline(cfg, TRUE)
        /\ mic_pipeline = create_mic_pipeline(cfg, TRUE)
        /\ stats = IF cfg.enable_aec
                   THEN publish_tuner_stats(AecProcessorNew(cfg, TRUE),
                                            RuntimeStatsDefault, None, None)
                   ELSE RuntimeStatsDefault
        /\ rx = [queue |-> <<>>, connected |-> TRUE]
        /\ stop_rx = [signal |-> FALSE]
        /\ pc = "loop"
        /\ engine = [stream |-> TRUE, thread |-> TRUE, stop_tx |-> TRUE,
                     detached |-> 0]
        /\ host = HostIdle
        /\ gil = "free"
        /\ aec = AecProcessorNew(cfg, TRUE)
        /\ normalizer = TimestampNormalizerNew(0)
        /\ quantizer = for_webrtc
        /\ hist = [op |-> "start",
                   captured |-> [s \in AudioSourceType |-> 0],
                   frames |-> [s \in AudioSourceType |-> 0],
                   calls |-> <<>>, flushes |-> 0,
                   all_frames |-> <<>>,
                   flushed |-> [main |-> <<>>, system |-> <<>>, mic |-> <<>>]]

\* did_output_sample_buffer: a capture handler sends a frame.
CaptureFrame ==
    \E source \in AudioSourceType, n \in CaptureLens :
        LET channels == CaptureChannels(source)
            had == hist.captured[source]
            samples == [i \in 1..(n * channels) |->
                            had + ((i - 1) \div channels) + 1]
            frame == AudioFrame(source, samples, 48000, channels,
                                CaptureStart(source) + SamplesToNs(had, 48000))
        IN  /\ rx.connected
            /\ pc = "loop"
            /\ hist.frames[source] < MaxFramesPerSource
            /\ rx' = [rx EXCEPT !.queue = Append(@, frame)]
            /\ hist' = [hist EXCEPT !.op = "capture",
                                    !.captured[source] = @ + n,
                                    !.frames[source] = @ + 1]
            /\ UNCHANGED <<config, aec, stats, normalizer, quantizer,
                           processors, sys_pipeline, mic_pipeline, stop_rx,
                           callback, pc, hostVars>>

\* The capture stream ends and drops the senders.
CaptureEnds ==
    /\ rx.connected
    /\ rx' = [rx EXCEPT !.connected = FALSE]
    /\ hist' = [hist EXCEPT !.op = "capture_ends"]
    /\ UNCHANGED <<config, aec, stats, normalizer, quantizer, processors,
                   sys_pipeline, mic_pipeline, stop_rx, callback, pc, hostVars>>

\* AudioEngine::stop sends the stop signal.
EngineStop ==
    /\ ~stop_rx.signal
    /\ stop_rx' = [signal |-> TRUE]
    /\ hist' = [hist EXCEPT !.op = "stop"]
    /\ UNCHANGED <<config, aec, stats, normalizer, quantizer, processors,
                   sys_pipeline, mic_pipeline, rx, callback, pc, hostVars>>

\* The select gives a frame: one iteration of the loop of run.
WorkerFrame ==
    /\ pc = "loop"
    /\ rx.queue # <<>>
    /\ \E env \in PipelineEnvs :
       \E r \in {IF Head(rx.queue).source = System
                  THEN RunSystemFrame(Worker, Head(rx.queue), config, env,
                                      callback)
                  ELSE RunMicFrame(Worker, Head(rx.queue), config, env,
                                   callback)} :
        /\ rx' = [rx EXCEPT !.queue = Tail(@)]
        /\ WorkerBecomes(r)
        /\ pc' = IF r.panic THEN "panicked" ELSE "loop"
        /\ hist' = [hist EXCEPT !.op = "frame", !.calls = @ \o r.calls]
        /\ UNCHANGED <<config, aec, normalizer, quantizer, stop_rx, callback,
                       hostVars>>

\* The loop is left and run calls flush_all_processors and returns: r is
\* what the flush comes to.
WorkerLeaves(r) ==
    /\ WorkerBecomes(r)
    /\ pc' = "done"
    /\ hist' = [hist EXCEPT !.op = "flush", !.calls = @ \o r.calls,
                            !.flushes = @ + 1,
                            !.all_frames = r.all_frames,
                            !.flushed = r.flushed]
    /\ UNCHANGED <<config, aec, normalizer, quantizer, rx, callback, hostVars>>

\* The select takes the stop signal: break, whatever the input channel
\* holds.
WorkerStopped ==
    /\ pc = "loop"
    /\ stop_rx.signal
    /\ stop_rx' = [signal |-> FALSE]
    /\ \E env \in PipelineEnvs :
       \E r \in {flush_all_processors(Worker, config, env, callback)} :
            WorkerLeaves(r)

\* The select finds the input channel empty with no sender left: Err, break.
WorkerClosed ==
    /\ pc = "loop"
    /\ rx.queue = <<>>
    /\ ~rx.connected
    /\ stop_rx' = stop_rx
    /\ \E env \in PipelineEnvs :
       \E r \in {flush_all_processors(Worker, config, env, callback)} :
            WorkerLeaves(r)

PipelineNext ==
    CaptureFrame \/ CaptureEnds \/ EngineStop \/ WorkerFrame
        \/ WorkerStopped \/ WorkerClosed

SpecPipeline == PipelineInit /\ [][PipelineNext]_vars


\* The first channel of the samples a call of the callback was given.
FirstChannel(call) ==
    [i \in 1..(Len(call.samples) \div call.channels) |->
        call.samples[(i - 1) * call.channels + 1]]

\* What the capture path of the APMs makes of a sample before the call:
\* the frames of the mic arm have gone through the AEC and the NS.
CaptureGain(call) ==
    IF call.via = "mic_final"
    THEN (IF config.enable_aec THEN 2 ELSE 1)
            * (IF config.enable_ns THEN 2 ELSE 1)
    ELSE 1

IsCaptured(x) == x # 0

\* The numbers of the captured samples a call delivered, padding left out.
CapturedOf(call) ==
    LET first == FirstChannel(call)
        gain == CaptureGain(call)
    IN  SelectSeq([i \in DOMAIN first |-> first[i] \div gain], IsCaptured)

\* The numbers of the captured samples delivered under a name, in the
\* order delivered.
RECURSIVE DeliveredFrom(_, _)
DeliveredFrom(name, i) ==
    IF i > Len(hist.calls) THEN <<>>
    ELSE (IF hist.calls[i].name = name THEN CapturedOf(hist.calls[i])
          ELSE <<>>) \o DeliveredFrom(name, i + 1)

Delivered(name) == DeliveredFrom(name, 1)

StrictlyIncreasing(seq) == \A i \in 1..(Len(seq) - 1) : seq[i] < seq[i + 1]

\* C4: with AEC enabled, the clone of a System frame that goes through the
\* main chain never comes out to the callback, the shutdown flush included:
\* every call of callback("system") is made with a frame of the system-final
\* chain, and no System sample is delivered twice.
C4_SystemCloneNeverDelivered ==
    config.enable_aec =>
        /\ \A i \in DOMAIN hist.calls :
              hist.calls[i].name = "system" =>
                  hist.calls[i].via \in {"system_final", "final_flush"}
        /\ LET d == Delivered("system")
           IN  Cardinality({d[i] : i \in DOMAIN d}) = Len(d)

\* C5: for each of Microphone and System, the samples handed to the
\* callback are in the order in which they came into the input queue,
\* under every interleaving of the sources and with the frames of the
\* shutdown flush.
C5_OrderPreservedPerSource ==
    \A source \in AudioSourceType :
        StrictlyIncreasing(Delivered(SourceName(source)))

\* The Microphone half of C5 alone.
MicOrderPreserved == StrictlyIncreasing(Delivered("mic"))

\* The kinds of the processors of a chain, in chain order.
KindsOf(chain) == [i \in DOMAIN chain |-> chain[i].kind]

\* The calls of the callback made from one place of the worker.
CallsVia(via) == SelectSeq(hist.calls, LAMBDA c : c.via = via)

C11_NoDequeueAfterStop ==
    [][stop_rx.signal => Len(rx'.queue) >= Len(rx.queue)]_vars

----------------------------------------------------------------------------
(* The engine: the host thread calls start() and stop() of one             *)
(* AudioEngine while holding the host runtime's global lock, which it      *)
(* gives up only between calls; the worker needs the lock where run        *)
(* attaches to the interpreter (Python::attach at the head of run,         *)
(* Python::try_attach in send_frame_to_python, which waits for the lock    *)
(* of an interpreter that can be attached to).                             *)

MaxEngineCalls == 3     \* calls of start() and stop() the host makes
MaxEngineFrames == 2    \* frames the capture handlers send in all

\* The default configuration with the sample formats a host may set:
\* the two the configuration names and one it does not.
EngineConfigs ==
    {[PipelineConfig(2, FALSE, FALSE) EXCEPT !.sample_format = f] :
        f \in {"f32", "i16", "u8"}}

\* What a call of the callback comes to in an interpreter the worker can
\* attach to.
EngineCallbackOutcomes == {"ok", "callback_error"}

WorkerAlive(p) == p \in {"attach", "loop"}

\* A join that returns at once.
JoinedAtOnce(thread, p) == TRUE

\* thread.join() of stop(): there is no handle, or the worker has returned
\* or died.
Joined(thread, p) == ~thread \/ ~WorkerAlive(p)

\* AudioEngine::new
EngineInit ==
    \E cfg \in EngineConfigs, outcome \in EngineCallbackOutcomes :
        /\ config = cfg
        /\ callback = outcome
        /\ stats = RuntimeStatsDefault
        /\ processors = <<>>
        /\ sys_pipeline = <<>>
        /\ mic_pipeline = <<>>
        /\ rx = [queue |-> <<>>, connected |-> FALSE]
        /\ stop_rx = [signal |-> FALSE]
        /\ pc = "none"
        /\ engine = [stream |-> FALSE, thread |-> FALSE, stop_tx |-> FALSE,
                     detached |-> 0]
        /\ host = HostIdle
        /\ gil = "host"
        /\ aec = AecProcessorNew(cfg, TRUE)
        /\ normalizer = TimestampNormalizerNew(0)
        /\ quantizer = for_webrtc
        /\ hist = [op |-> "new", captured |-> 0, delivered |-> 0, runs |-> 0,
                   spawned_over |-> "none",
                   stats_before |-> RuntimeStatsDefault]

\* The head of stop() (lines 130-136), for the call named: the signal is
\* sent if there is a stop_tx and a receiver, the stream is stopped and
\* dropped with its senders, and the host comes to the join.
HostStops(call) ==
    /\ host.calls < MaxEngineCalls
    /\ gil' = "host"
    /\ stop_rx' = IF engine.stop_tx /\ WorkerAlive(pc)
                  THEN [signal |-> TRUE] ELSE stop_rx
    /\ rx' = IF engine.stream THEN [rx EXCEPT !.connected = FALSE] ELSE rx
    /\ engine' = [engine EXCEPT !.stop_tx = FALSE, !.stream = FALSE]
    /\ host' = [host EXCEPT !.call = call, !.at = "join", !.calls = @ + 1]
    /\ hist' = [hist EXCEPT !.op = call]
    /\ UNCHANGED <<config, aec, stats, normalizer, quantizer, processors,
                   sys_pipeline, mic_pipeline, callback, pc>>

\* The host calls stop().
CallStop ==
    /\ host.at = "idle"
    /\ HostStops("stop")

\* The host calls start(), which calls stop() first (line 99).
CallStart ==
    /\ host.at = "idle"
    /\ HostStops("start")

\* The thread handle is taken: a worker that is joined is no more, one
\* that is not joined runs on without a handle.
ThreadTaken ==
    [engine EXCEPT !.thread = FALSE,
                   !.detached = IF engine.thread /\ WorkerAlive(pc)
                                THEN @ + 1 ELSE @]

\* The join of stop() returns and stop() returns.
StopReturns ==
    /\ host.call = "stop"
    /\ host.at = "join"
    /\ Joined(engine.thread, pc)
    /\ engine' = ThreadTaken
    /\ pc' = IF engine.thread THEN "none" ELSE pc
    /\ host' = [host EXCEPT !.call = "none", !.at = "idle", !.ret = "ok"]
    /\ hist' = [hist EXCEPT !.op = "stop_returns"]
    /\ UNCHANGED <<config, aec, stats, normalizer, quantizer, processors,
                   sys_pipeline, mic_pipeline, rx, stop_rx, callback, gil>>

\* The join of the stop() in start() returns and start() goes on (lines
\* 100-126): the stats are reset, the channels made, the capture started
\* (which may fail, and start returns the error), the pipeline built and
\* the worker spawned.
StartSpawns ==
    /\ host.call = "start"
    /\ host.at = "join"
    /\ Joined(engine.thread, pc)
    /\ \E capture_ok \in BOOLEAN :
        /\ stats' = IF capture_ok /\ config.enable_aec
                    THEN publish_tuner_stats(AecProcessorNew(config, TRUE),
                                             RuntimeStatsDefault, None, None)
                    ELSE RuntimeStatsDefault
        /\ rx' = [queue |-> <<>>, connected |-> capture_ok]
        /\ stop_rx' = [signal |-> FALSE]
        /\ engine' = [ThreadTaken EXCEPT !.stream = capture_ok,
                                         !.thread = capture_ok,
                                         !.stop_tx = capture_ok]
        /\ processors' = IF capture_ok
                         THEN PipelineProcessors(config, 1000000, TRUE)
                         ELSE <<>>
        /\ sys_pipeline' = <<>>
        /\ mic_pipeline' = <<>>
        /\ pc' = IF capture_ok THEN "attach" ELSE "none"
        /\ host' = [host EXCEPT !.call = "none", !.at = "idle",
                                !.ret = IF capture_ok THEN "ok" ELSE "err"]
        /\ hist' = [hist EXCEPT !.op = "start_returns",
                                !.runs = IF capture_ok THEN @ + 1 ELSE @,
                                !.delivered = 0,
                                !.spawned_over = pc,
                                !.stats_before = stats]
    /\ UNCHANGED <<config, aec, normalizer, quantizer, callback, gil>>

\* Between calls of the engine the host thread gives up the lock.
HostReleasesGil ==
    /\ host.at = "idle"
    /\ gil = "host"
    /\ gil' = "free"
    /\ hist' = [hist EXCEPT !.op = "release"]
    /\ UNCHANGED <<config, aec, stats, normalizer, quantizer, processors,
                   sys_pipeline, mic_pipeline, rx, stop_rx, callback, pc,
                   engine, host>>

\* did_output_sample_buffer of a handler of the running stream.
EngineCapture ==
    \E source \in AudioSourceType :
        LET channels == CaptureChannels(source)
            id == hist.captured + 1
            frame == AudioFrame(source, [i \in 1..channels |-> id], 48000,
                                channels, CaptureStart(source) + id)
        IN  /\ engine.stream
            /\ rx.connected
            /\ hist.captured < MaxEngineFrames
            /\ rx' = [rx EXCEPT !.queue = Append(@, frame)]
            /\ hist' = [hist EXCEPT !.op = "capture", !.captured = id]
            /\ UNCHANGED <<config, aec, stats, normalizer, quantizer,
                           processors, sys_pipeline, mic_pipeline, stop_rx,
                           callback, pc, hostVars>>

\* The head of run (lines 121-126): the worker attaches to the interpreter
\* for the callback, waiting for the lock, and makes the final chains.
EngineWorkerAttaches ==
    /\ pc = "attach"
    /\ gil = "free"
    /\ pc' = "loop"
    /\ sys_pipeline' = create_system_pipeline(config, TRUE)
    /\ mic_pipeline' = create_mic_pipeline(config, TRUE)
    /\ hist' = [hist EXCEPT !.op = "attach"]
    /\ UNCHANGED <<config, aec, stats, normalizer, quantizer, processors, rx,
                   stop_rx, callback, hostVars>>

\* The worker goes through a stretch of run that made the calls given of
\* send_frame_to_python: each waits in try_attach for the lock.
LockFor(calls) == calls # <<>> => gil = "free"

\* One iteration of the loop of run on a frame of the input channel.
EngineWorkerFrame ==
    /\ pc = "loop"
    /\ rx.queue # <<>>
    /\ \E env \in PipelineEnvs :
       \E r \in {IF Head(rx.queue).source = System
                  THEN RunSystemFrame(Worker, Head(rx.queue), config, env,
                                      callback)
                  ELSE RunMicFrame(Worker, Head(rx.queue), config, env,
                                   callback)} :
        /\ LockFor(r.calls)
        /\ rx' = [rx EXCEPT !.queue = Tail(@)]
        /\ WorkerBecomes(r)
        /\ pc' = IF r.panic THEN "panicked" ELSE "loop"
        /\ hist' = [hist EXCEPT !.op = "frame",
                                !.delivered = @ + Len(r.calls)]
        /\ UNCHANGED <<config, aec, normalizer, quantizer, stop_rx, callback,
                       hostVars>>

\* The loop is left, run flushes and the thread returns.
EngineWorkerLeaves(r) ==
    /\ LockFor(r.calls)
    /\ WorkerBecomes(r)
    /\ pc' = "done"
    /\ hist' = [hist EXCEPT !.op = "flush", !.delivered = @ + Len(r.calls)]
    /\ UNCHANGED <<config, aec, normalizer, quantizer, rx, callback, hostVars>>

EngineWorkerStopped ==
    /\ pc = "loop"
    /\ stop_rx.signal
    /\ stop_rx' = [signal |-> FALSE]
    /\ \E env \in PipelineEnvs :
       \E r \in {flush_all_processors(Worker, config, env, callback)} :
            EngineWorkerLeaves(r)

EngineWorkerClosed ==
    /\ pc = "loop"
    /\ rx.queue = <<>>
    /\ ~rx.connected
    /\ stop_rx' = stop_rx
    /\ \E env \in PipelineEnvs :
       \E r \in {flush_all_processors(Worker, config, env, callback)} :
            EngineWorkerLeaves(r)

EngineWorkerNext ==
    EngineWorkerAttaches \/ EngineWorkerFrame \/ EngineWorkerStopped
        \/ EngineWorkerClosed

EngineNext ==
    CallStop \/ CallStart \/ StopReturns \/ StartSpawns \/ HostReleasesGil
        \/ EngineCapture \/ EngineWorkerNext

SpecEngine == EngineInit /\ [][EngineNext]_vars


\* The worker waits for the lock: at the head of run, or in the loop with
\* a frame or the stop signal to take (with the signal and a frame both
\* there it may take either).
WorkerWaitsForLock ==
    /\ gil = "host"
    /\ \/ pc = "attach"
       \/ /\ pc = "loop"
          /\ rx.queue # <<>>
          /\ ~stop_rx.signal

\* C12: stop() always terminates: the host is never in the join of stop()
\* holding the lock while the worker it joins waits for that lock, in
\* which state neither thread takes another step.
C12_StopTerminates ==
    ~(/\ host.call = "stop"
      /\ host.at = "join"
      /\ engine.thread
      /\ WorkerWaitsForLock)

\* The emissions of the step: the frames handed to send_frame_to_python.
NewCalls == SubSeq(hist'.calls, Len(hist.calls) + 1, Len(hist'.calls))

NamedCalls(calls, name) == Len(SelectSeq(calls, LAMBDA c : c.name = name))

WorkersAlive == (IF WorkerAlive(pc) THEN 1 ELSE 0) + engine.detached

\* C14: at most one worker is alive per engine; start() spawns a worker
\* only over a previous worker that has returned (or none), and resets the
\* stats after that, so that the new worker starts on stats no other worker
\* has written to since.
C14_OneWorkerFreshStats ==
    /\ WorkersAlive <= 1
    /\ ~WorkerAlive(hist.spawned_over)
    /\ pc = "attach" => stats = RuntimeStatsDefault

\* start() was called during a run whose worker had counted frames, and
\* the worker of the new run is starting on the reset stats.
C14_RestartedAfterFrames ==
    /\ hist.runs >= 2
    /\ hist.spawned_over = "done"
    /\ hist.stats_before.frames_in_mic + hist.stats_before.frames_in_system > 0
    /\ pc = "attach"
    /\ stats = RuntimeStatsDefault

\* C15: start() with a sample_format that is neither "f32" nor "i16"
\* returns an error: no worker is spawned and no frame is delivered.
C15_UnknownFormatRejected ==
    config.sample_format \notin {"f32", "i16"} =>
        /\ hist.runs = 0
        /\ pc = "none"
        /\ hist.delivered = 0
        /\ hist.op = "start_returns" => host.ret = "err"

----------------------------------------------------------------------------
(* The main chain in every configuration of enable_aec and enable_ns,     *)
(* under captured buffers shorter than a quantum, longer than one and     *)
(* longer than two, mono and stereo, from either source.                  *)

MaxChainFrames == 2     \* frames the capture handlers send in all

\* Frames per channel of a captured buffer.
ChainLens == {20, 500, 980}

\* Channels of a captured buffer.
ChainChannels == {1, 2}

ChainConfigs ==
    {PipelineConfig(1, enable_aec, enable_ns) :
        enable_aec \in BOOLEAN, enable_ns \in BOOLEAN}
    \cup {[PipelineConfig(1, FALSE, FALSE) EXCEPT !.sample_rate = 16000]}

ChainInit ==
    \E cfg \in ChainConfigs :
        /\ config = cfg
        /\ callback = "ok"
        /\ processors = PipelineProcessors(cfg, 1000000, TRUE)
        /\ sys_pipeline = create_system_pipeline(cfg, TRUE)
        /\ mic_pipeline = create_mic_pipeline(cfg, TRUE)
        /\ stats = IF cfg.enable_aec
                   THEN publish_tuner_stats(AecProcessorNew(cfg, TRUE),
                                            RuntimeStatsDefault, None, None)
                   ELSE RuntimeStatsDefault
        /\ rx = [queue |-> <<>>, connected |-> TRUE]
        /\ stop_rx = [signal |-> FALSE]
        /\ pc = "loop"
        /\ engine = [stream |-> TRUE, thread |-> TRUE, stop_tx |-> TRUE,
                     detached |-> 0]
        /\ host = HostIdle
        /\ gil = "free"
        /\ aec = AecProcessorNew(cfg, TRUE)
        /\ normalizer = TimestampNormalizerNew(0)
        /\ quantizer = for_webrtc
        /\ hist = [op |-> "start",
                   captured |-> [s \in AudioSourceType |-> 0],
                   frames |-> [s \in AudioSourceType |-> 0],
                   calls |-> <<>>, flushes |-> 0,
                   all_frames |-> <<>>,
                   flushed |-> [main |-> <<>>, system |-> <<>>, mic |-> <<>>]]

\* did_output_sample_buffer: a capture handler sends a buffer of any of
\* the lengths and channel counts.
ChainCapture ==
    \E source \in AudioSourceType, n \in ChainLens,
       channels \in ChainChannels :
        LET had == hist.captured[source]
            samples == [i \in 1..(n * channels) |->
                            had + ((i - 1) \div channels) + 1]
            frame == AudioFrame(source, samples, 48000, channels,
                                CaptureStart(source) + SamplesToNs(had, 48000))
        IN  /\ rx.connected
            /\ pc = "loop"
            /\ hist.frames[Microphone] + hist.frames[System] < MaxChainFrames
            /\ rx' = [rx EXCEPT !.queue = Append(@, frame)]
            /\ hist' = [hist EXCEPT !.op = "capture",
                                    !.captured[source] = @ + n,
                                    !.frames[source] = @ + 1]
            /\ UNCHANGED <<config, aec, stats, normalizer, quantizer,
                           processors, sys_pipeline, mic_pipeline, stop_rx,
                           callback, pc, hostVars>>

ChainNext == ChainCapture \/ CaptureEnds \/ WorkerFrame \/ WorkerClosed

SpecChain == ChainInit /\ [][ChainNext]_vars

\* The position of the processor of a kind in the main chain, 0 if none.
StageOf(kind) ==
    IF \E i \in DOMAIN processors : processors[i].kind = kind
    THEN CHOOSE i \in DOMAIN processors : processors[i].kind = kind
    ELSE 0

\* The frames process() of the processor of a kind is called with when the
\* worker takes the frame at the head of the input queue: those the
\* processors before it hand on.  A System frame enters the main chain
\* only with AEC enabled (run, lines 138-143).
Reaching(kind) ==
    LET frame == Head(rx.queue)
        k == StageOf(kind)
    IN  IF k = 0 \/ (frame.source = System /\ ~config.enable_aec) THEN <<>>
        ELSE ChainLoop(SubSeq(processors, 1, k - 1), 0, <<frame>>, stats,
                       config, CHOOSE env \in PipelineEnvs : TRUE,
                       TRUE).frames

IsWebRtcQuantum(frame) ==
    /\ Len(frame.samples) = 480
    /\ frame.sample_rate = 48000
    /\ frame.channels = 1

\* The main chain as the composition rule gives it.
ComposedChain ==
    <<"timestamp">>
    \o (IF config.enable_aec \/ config.enable_ns
        THEN <<"resample", "quantizer">> ELSE <<>>)
    \o (IF config.enable_aec THEN <<"aec">> ELSE <<>>)
    \o (IF config.enable_ns THEN <<"ns">> ELSE <<>>)

\* C20: in every configuration the main chain is the timestamp normalizer,
\* then the resampler to 48 kHz mono and the quantizer of 480 iff AEC or NS
\* is enabled, then AEC iff enabled, then NS iff enabled; and whenever the
\* worker processes a frame, of any size and channel count, every frame
\* process() of the AEC or of the NS stage is called with is one quantum
\* of 480 samples at 48 kHz mono.
C20_WebRtcStagesGetQuanta ==
    [][ /\ KindsOf(processors) = ComposedChain
        /\ hist'.op = "frame" =>
              \A kind \in {"aec", "ns"} :
                \A i \in DOMAIN Reaching(kind) :
                    IsWebRtcQuantum(Reaching(kind)[i]) ]_vars

\* With AEC and NS enabled, the quanta of two Microphone buffers of 500
\* frames each went through both stages: one of the first buffer, one made
\* of the rest of the first and the start of the second.
C20_TwoBuffersQuantized ==
    /\ config.enable_aec
    /\ config.enable_ns
    /\ hist.op = "frame"
    /\ hist.frames[Microphone] = 2
    /\ hist.captured[Microphone] = 1000
    /\ rx.queue = <<>>
    /\ stats.aec_processor.samples = 2
    /\ stats.ns_processor.samples = 2
    /\ \E i \in DOMAIN hist.calls : hist.calls[i].name = "mic"

\* What the processors of a chain after the first index, up to the k-th,
\* yield one after the other, each called with the frames the one before
\* it yielded from process and drain_ready.
RECURSIVE StagesThrough(_, _, _, _, _, _)
StagesThrough(chain, index, k, frames, st, timed) ==
    IF index >= k \/ frames = <<>> THEN frames
    ELSE LET env == CHOOSE e \in PipelineEnvs : TRUE
             r == ProcessInputs([processor |-> chain[index + 1], stats |-> st,
                                 next_frames |-> <<>>, panic |-> FALSE],
                                frames, index, config, env, timed)
             d == DrainLoop(r.processor, r.next_frames)
         IN  StagesThrough(chain, index + 1, k, d.next_frames, r.stats, timed)

\* The frames the first k processors of a chain hand on for a frame.
PrefixFrames(chain, k, frame, timed) ==
    StagesThrough(chain, 0, k, <<frame>>, stats, timed)

\* The first processor of a chain that yields no frame for a frame, from
\* process or from drain_ready; 0 if every processor yields one.
DryStage(chain, frame, timed) ==
    LET dry == {k \in DOMAIN chain :
                    PrefixFrames(chain, k, frame, timed) = <<>>}
    IN  IF dry = {} THEN 0
        ELSE CHOOSE k \in dry : \A j \in dry : k <= j

\* The stage statistics of the processors of the main chain, in order.
StageStatsOf(st) ==
    [timestamp |-> st.timestamp_processor,
     resample |-> st.webrtc_resample_processor,
     quantizer |-> st.quantizer_processor,
     aec |-> st.aec_processor,
     ns |-> st.ns_processor]

\* The frame taken enters the main chain, and a processor of it yields
\* nothing for it.
MainChainRunsDry ==
    /\ pc = "loop"
    /\ rx.queue # <<>>
    /\ Head(rx.queue).source = Microphone \/ config.enable_aec
    /\ DryStage(processors, Head(rx.queue), TRUE) # 0

\* C21: when a processor of the main chain yields no frame for an input,
\* no later processor of the chain is invoked for it (each is left as it
\* was and records no stage time) and the chain's result is empty: for a
\* Microphone input the final chain is not run and nothing is delivered.
\* When the processor of a final chain yields no frame, the chain's
\* result is empty and nothing is delivered for that input.
C21_ShortCircuit ==
    [][ hist'.op = "frame" =>
        /\ MainChainRunsDry =>
            /\ LET dry == DryStage(processors, Head(rx.queue), TRUE) IN
                \A j \in DOMAIN processors :
                  j > dry =>
                    /\ processors'[j] = processors[j]
                    /\ StageStatsOf(stats')[processors[j].kind]
                          = StageStatsOf(stats)[processors[j].kind]
            /\ Head(rx.queue).source = Microphone =>
                  /\ mic_pipeline' = mic_pipeline
                  /\ hist'.calls = hist.calls
                  /\ stats'.processing_time = stats.processing_time
        /\ ( /\ Head(rx.queue).source = System
             /\ DryStage(sys_pipeline, Head(rx.queue), FALSE) # 0 )
            => hist'.calls = hist.calls
        /\ ( /\ Head(rx.queue).source = Microphone
             /\ Len(processors) = 1
             /\ DryStage(mic_pipeline,
                         PrefixFrames(processors, 1, Head(rx.queue), TRUE)[1],
                         FALSE) # 0 )
            => hist'.calls = hist.calls ]_vars

\* With AEC and NS enabled, a Microphone buffer shorter than a quantum was
\* processed: the quantizer kept it, and AEC and NS were not reached.
C21_QuantizerKeptShortBuffer ==
    /\ config.enable_aec
    /\ config.enable_ns
    /\ hist.op = "frame"
    /\ hist.frames[Microphone] = 1
    /\ hist.captured[Microphone] = 20
    /\ hist.frames[System] = 0
    /\ rx.queue = <<>>
    /\ stats.frames_in_mic = 1
    /\ stats.quantizer_processor.samples = 0
    /\ stats.aec_processor.samples = 0
    /\ stats.ns_processor.samples = 0
    /\ hist.calls = <<>>

(***************************************************************************)
(* capture.rs: cm_time_to_ns                                               *)
(*                                                                         *)
(* The arithmetic of cm_time_to_ns is unsigned 64-bit.  A number is held   *)
(* as the sequence of its base-256 digits, least significant first and     *)
(* without leading zero digits, so that a u64 is a number of at most eight *)
(* digits and wrapping to 64 bits keeps the first eight digits.            *)
(***************************************************************************)
LIMB == 256
U64_LIMBS == 8
MaxTimescale == 1000000

RECURSIVE BigOf(_)
BigOf(n) == IF n = 0 THEN <<>> ELSE <<n % LIMB>> \o BigOf(n \div LIMB)

RECURSIVE BigTrim(_)
BigTrim(a) ==
    IF a # <<>> /\ a[Len(a)] = 0 THEN BigTrim(SubSeq(a, 1, Len(a) - 1)) ELSE a

\* a * m + carry, for m <= 1000
RECURSIVE BigMulSmall(_, _, _)
BigMulSmall(a, m, carry) ==
    IF a = <<>> THEN BigOf(carry)
    ELSE <<(Head(a) * m + carry) % LIMB>>
         \o BigMulSmall(Tail(a), m, (Head(a) * m + carry) \div LIMB)

\* a / d and a % d, for 0 < d <= MaxTimescale, digit by digit from the top
RECURSIVE BigDivLoop(_, _, _, _)
BigDivLoop(a, d, rem, q) ==
    IF a = <<>> THEN [q |-> BigTrim(q), r |-> rem]
    ELSE BigDivLoop(SubSeq(a, 1, Len(a) - 1), d,
                    (rem * LIMB + a[Len(a)]) % d,
                    <<(rem * LIMB + a[Len(a)]) \div d>> \o q)

BigDiv(a, d) == BigDivLoop(a, d, 0, <<>>).q
BigRem(a, d) == BigDivLoop(a, d, 0, <<>>).r

RECURSIVE BigAdd(_, _, _)
BigAdd(a, b, carry) ==
    IF a = <<>> /\ b = <<>> THEN BigOf(carry)
    ELSE LET x == IF a = <<>> THEN 0 ELSE Head(a)
             y == IF b = <<>> THEN 0 ELSE Head(b)
         IN  <<(x + y + carry) % LIMB>>
             \o BigAdd(IF a = <<>> THEN a ELSE Tail(a),
                       IF b = <<>> THEN b ELSE Tail(b),
                       (x + y + carry) \div LIMB)

RECURSIVE BigLeq(_, _)
BigLeq(a, b) ==
    IF Len(a) # Len(b) THEN Len(a) < Len(b)
    ELSE IF a = <<>> THEN TRUE
    ELSE IF a[Len(a)] # b[Len(b)] THEN a[Len(a)] < b[Len(b)]
    ELSE BigLeq(SubSeq(a, 1, Len(a) - 1), SubSeq(b, 1, Len(b) - 1))

\* 1_000_000_000 = 1000 * 1000 * 1000
BigMulBillion(a) ==
    BigTrim(BigMulSmall(BigMulSmall(BigMulSmall(a, 1000, 0), 1000, 0), 1000, 0))
BigDivBillion(a) == BigDiv(BigDiv(BigDiv(a, 1000), 1000), 1000)

U64_MAX == [i \in 1..U64_LIMBS |-> LIMB - 1]
I64_MAX == [i \in 1..U64_LIMBS |-> IF i = U64_LIMBS THEN LIMB \div 2 - 1 ELSE LIMB - 1]

FitsU64(a) == Len(a) <= U64_LIMBS
WrapU64(a) == BigTrim(SubSeq(a, 1, Min(Len(a), U64_LIMBS)))

\* An i64 is a sign and a magnitude.
I64(neg, mag) == [neg |-> neg, mag |-> mag]

\* cm_time_to_ns with the arithmetic of a build without overflow checks
\* (every product and sum wrapped to 64 bits); overflow tells whether a
\* product or the sum left the 64 bits, which is where a build with overflow
\* checks panics.
cm_time_to_ns(value, timescale) ==
    IF timescale <= 0 \/ value.neg THEN [out |-> <<>>, overflow |-> FALSE]
    ELSE IF BigLeq(value.mag, BigDivBillion(U64_MAX))
    THEN [out |-> BigDiv(WrapU64(BigMulBillion(value.mag)), timescale),
          overflow |-> ~FitsU64(BigMulBillion(value.mag))]
    ELSE LET whole == BigMulBillion(BigDiv(value.mag, timescale))
             part == BigMulBillion(BigOf(BigRem(value.mag, timescale)))
             sum == BigTrim(BigAdd(WrapU64(whole),
                                   BigDiv(WrapU64(part), timescale), 0))
         IN  [out |-> WrapU64(sum),
              overflow |-> ~FitsU64(whole) \/ ~FitsU64(part) \/ ~FitsU64(sum)]

\* floor(value * 1,000,000,000 / timescale) over the naturals
ExactNs(mag, timescale) == BigDiv(BigMulBillion(mag), timescale)

(***************************************************************************)
(* cm_time_to_ns applied to the presentation timestamps capture.rs hands   *)
(* it (capture.rs line 78): any i64 value and any i32 timescale, here the  *)
(* values and timescales of the tests, the values around                   *)
(* u64::MAX / 1_000_000_000 where the function changes its formula, and    *)
(* the largest values.  A build with overflow checks panics where a build  *)
(* without them wraps.                                                     *)
(***************************************************************************)
CmThreshold == BigDivBillion(U64_MAX)

CmValues ==
    {I64(TRUE, <<1>>), I64(TRUE, I64_MAX)}
    \cup {I64(FALSE, BigOf(n)) : n \in {0, 1, 480, 48000, 1000000007}}
    \cup {I64(FALSE, BigTrim(BigAdd(CmThreshold, BigOf(n), 0))) : n \in {0, 1, 48000}}
    \cup {I64(FALSE, BigDiv(I64_MAX, d)) : d \in {1, 2, 1000, 48000, 1000000}}

CmTimescales == {-1, 0, 1, 600, 44100, 48000, MaxTimescale}

CmInit ==
    /\ \E value \in CmValues, timescale \in CmTimescales :
           hist = [op |-> "new", value |-> value, timescale |-> timescale,
                   out |-> None, panicked |-> FALSE, overflow |-> FALSE]
    /\ normalizer = TimestampNormalizerNew(0)
    /\ config = AecConfig(0, 0)
    /\ aec = AecProcessorNew(AecConfig(0, 0), TRUE)
    /\ stats = RuntimeStatsDefault
    /\ quantizer = for_webrtc
    /\ NoWorker

CmTimeToNs ==
    \E overflow_checks \in BOOLEAN :
        /\ hist.op = "new"
        /\ LET r == cm_time_to_ns(hist.value, hist.timescale)
           IN  hist' = [hist EXCEPT !.op = "cm_time_to_ns",
                                    !.overflow = r.overflow,
                                    !.panicked = overflow_checks /\ r.overflow,
                                    !.out = IF overflow_checks /\ r.overflow
                                            THEN None ELSE Some(r.out)]
        /\ UNCHANGED <<normalizer, config, aec, stats, quantizer, workerVars, hostVars>>

CmNext == CmTimeToNs
SpecCmTime == CmInit /\ [][CmNext]_vars

\* C22: cm_time_to_ns returns 0 when value < 0 or timescale <= 0, and
\* otherwise floor(value * 1,000,000,000 / timescale) without an unsigned
\* 64-bit overflow in any intermediate or final result, for every value up
\* to i64::MAX.
C22_CmTimeToNsExact ==
    hist.op = "cm_time_to_ns" =>
        /\ ~hist.overflow
        /\ ~hist.panicked
        /\ hist.out = Some(IF hist.value.neg \/ hist.timescale <= 0 THEN <<>>
                           ELSE ExactNs(hist.value.mag, hist.timescale))

\* C22 where it holds: no product or sum leaves the 64 bits.
C22_ExactUnlessOverflow ==
    (hist.op = "cm_time_to_ns" /\ ~hist.overflow) =>
        /\ ~hist.panicked
        /\ hist.out = Some(IF hist.value.neg \/ hist.timescale <= 0 THEN <<>>
                           ELSE ExactNs(hist.value.mag, hist.timescale))

\* i64::MAX at 48 kHz, the input of the test of capture.rs
C22_MaxValueConverted ==
    /\ hist.op = "cm_time_to_ns"
    /\ hist.value = I64(FALSE, I64_MAX)
    /\ hist.timescale = 48000

\* C23: the k-th quantum (k = 0, 1, 2, ...) a FrameQuantizer emits for a
\* source carries the timestamp anchor + floor(k * quantum * 1e9 /
\* sample_rate), where anchor is the timestamp of the first frame accepted
\* for that source; the timestamps of later frames do not affect it, the
\* quanta of one source from for_webrtc() are 10,000,000 ns apart, and the
\* timestamps of one source never decrease.
C23_QuantumTimestamps ==
    \A i \in DOMAIN hist.out :
        LET s == hist.out[i].source
            k == hist.quanta[s] - FramesOf(SubSeq(hist.out, i, Len(hist.out)), s)
        IN  /\ IsSome(hist.first_ts[s])
            /\ hist.out[i].timestamp =
                   Unwrap(hist.first_ts[s])
                   + SamplesToNs(k * quantizer.quantum_size,
                                 quantizer.expected_sample_rate)
            /\ quantizer.quantum_size = 480 /\ quantizer.expected_sample_rate = 48000
                   => hist.out[i].timestamp
                          = Unwrap(hist.first_ts[s]) + k * 10000000
            /\ \A j \in DOMAIN hist.out :
                   i < j /\ hist.out[j].source = s
                       => hist.out[i].timestamp <= hist.out[j].timestamp

\* The second quantum of a for_webrtc() quantizer, cut when a frame with a
\* later timestamp than the first arrived at an empty buffer.
C23_SecondQuantumKeepsAnchor ==
    /\ hist.op = "process"
    /\ quantizer.quantum_size = 480
    /\ hist.first_ts[Microphone] = Some(1000000)
    /\ hist.frame_ts = Some(3000000)
    /\ hist.quanta[Microphone] = 2
    /\ Len(hist.out) = 1
    /\ hist.out[1].source = Microphone
    /\ hist.out[1].timestamp = 11000000
    /\ hist.total[Microphone] = 960

\* C24: process() on a frame whose sample rate or channel count is not the
\* expected one returns no frame and leaves the quantizer as it was: both
\* buffers, both anchors, both samples_processed counters, the ready queue.
C24_RejectedLeavesState ==
    [][ (hist'.op = "process" /\ ~hist'.accepted) =>
            /\ hist'.out = <<>>
            /\ quantizer'.ready_queue = quantizer.ready_queue
            /\ \A s \in AudioSourceType :
                  /\ source_state(quantizer', s).sample_buffer
                        = source_state(quantizer, s).sample_buffer
                  /\ source_state(quantizer', s).current_timestamp
                        = source_state(quantizer, s).current_timestamp
                  /\ source_state(quantizer', s).samples_processed
                        = source_state(quantizer, s).samples_processed
            /\ quantizer' = quantizer ]_vars

\* A frame was rejected while a quantum waited in the ready queue and both
\* sources had emitted quanta and held samples.
C24_RejectedWhileBuffering ==
    /\ hist.op = "process"
    /\ ~hist.accepted
    /\ quantizer.ready_queue # <<>>
    /\ \A s \in AudioSourceType :
          /\ source_state(quantizer, s).sample_buffer # <<>>
          /\ source_state(quantizer, s).samples_processed > 0
          /\ source_state(quantizer, s).current_timestamp > 0

\* The frames of one source among frames, in their order.
FramesFrom(frames, source) == SelectSeq(frames, LAMBDA f : f.source = source)

\* C25: flush() emits, for each source holding r buffered samples with
\* 0 < r < quantum, exactly one frame (after the frames of the ready queue)
\* whose first r samples are the buffered samples in order and whose other
\* quantum - r samples are zero; it emits no padded frame for a source with
\* an empty buffer; after flush both buffers and the ready queue are empty,
\* and a flush repeated at once emits nothing.
C25_FlushPadsPartial ==
    [][ hist'.op = "flush" =>
            /\ SubSeq(hist'.out, 1, Len(quantizer.ready_queue)) = quantizer.ready_queue
            /\ \A s \in AudioSourceType :
                  LET buffered == source_state(quantizer, s).sample_buffer
                      r == Len(buffered)
                      padded == FramesFrom(SubSeq(hist'.out,
                                                  Len(quantizer.ready_queue) + 1,
                                                  Len(hist'.out)), s)
                  IN  /\ r < quantizer.quantum_size
                      /\ r = 0 => padded = <<>>
                      /\ r > 0 =>
                            /\ Len(padded) = 1
                            /\ Len(padded[1].samples) = quantizer.quantum_size
                            /\ SubSeq(padded[1].samples, 1, r) = buffered
                            /\ \A i \in (r + 1)..quantizer.quantum_size :
                                   padded[1].samples[i] = 0
                      /\ source_state(quantizer', s).sample_buffer = <<>>
            /\ quantizer'.ready_queue = <<>>
            /\ hist.op = "flush" => hist'.out = <<>> ]_vars

\* A for_webrtc() quantizer flushed with half a quantum of Microphone samples
\* and nothing from System: one frame, its second half zero.
C25_HalfQuantumPadded ==
    /\ hist.op = "flush"
    /\ quantizer.quantum_size = 480
    /\ Len(hist.received[Microphone]) = 240
    /\ hist.received[System] = <<>>
    /\ Len(hist.out) = 1
    /\ hist.out[1].source = Microphone
    /\ SubSeq(hist.out[1].samples, 1, 240) = hist.received[Microphone]
    /\ hist.out[1].samples[241] = 0
    /\ hist.out[1].samples[480] = 0

\* A flush right after a flush.
C25_FlushedTwice ==
    /\ hist.op = "flush"
    /\ hist.out = <<>>
    /\ hist.flushed
    /\ hist.total[Microphone] > 0

----------------------------------------------------------------------------
(* A ResampleProcessor on its own, as the final chains hold it              *)
(* (modular_pipeline.rs lines 97-116): frames of both sources, labelled     *)
(* 48 kHz by the capture, mono or stereo, in any order; drain_ready, flush  *)
(* and reset may be called between.  The targets are 48 kHz mono and        *)
(* stereo (no resampler is built) and 16 kHz mono (a resampler is built and *)
(* keeps the samples until it holds a chunk).                               *)

MaxBuffered == 4        \* samples a stream may hold in its input buffer

RsTargets == {[rate |-> 48000, channels |-> 1],
              [rate |-> 48000, channels |-> 2],
              [rate |-> 16000, channels |-> 1]}

RsTimestamps == {1000000, 3000000}

RsProcessor == processors[1].state

RsInit ==
    /\ \E target \in RsTargets, source_type \in AudioSourceType :
          processors = <<Processor("resample",
                            ResampleProcessorNew(48000, target.rate,
                                                 target.channels, source_type,
                                                 TRUE))>>
    /\ hist = [op |-> "new", frame |-> None, out |-> <<>>]
    /\ normalizer = TimestampNormalizerNew(0)
    /\ config = AecConfig(0, 0)
    /\ aec = AecProcessorNew(AecConfig(0, 0), TRUE)
    /\ stats = RuntimeStatsDefault
    /\ quantizer = for_webrtc
    /\ engine = [stream |-> FALSE, thread |-> FALSE, stop_tx |-> FALSE,
                 detached |-> 0]
    /\ host = HostIdle
    /\ gil = "free"
    /\ sys_pipeline = <<>>
    /\ mic_pipeline = <<>>
    /\ rx = [queue |-> <<>>, connected |-> FALSE]
    /\ stop_rx = [signal |-> FALSE]
    /\ callback = "ok"
    /\ pc = "none"

RsUnchanged ==
    UNCHANGED <<normalizer, config, aec, stats, quantizer, engine, host, gil,
                sys_pipeline, mic_pipeline, rx, stop_rx, callback, pc>>

RsProcess ==
    \E source \in AudioSourceType, n \in 1..MaxFrameLen, channels \in {1, 2},
       ts \in RsTimestamps :
        LET samples == [i \in 1..(n * channels) |-> 10 * n + i]
            frame == AudioFrame(source, samples, 48000, channels, ts)
            r == ResampleProcessorProcess(RsProcessor, frame)
        IN  /\ Len(stream_state(r.processor, source).input_buffer) <= MaxBuffered
            /\ processors' = <<Processor("resample", r.processor)>>
            /\ hist' = [op |-> "process", frame |-> Some(frame),
                        out |-> OptionFrames(r.out)]
            /\ RsUnchanged

RsDrainReady ==
    LET r == ResampleProcessorDrainReady(RsProcessor)
    IN  /\ processors' = <<Processor("resample", r.processor)>>
        /\ hist' = [op |-> "drain_ready", frame |-> None,
                    out |-> OptionFrames(r.out)]
        /\ RsUnchanged

RsFlush ==
    LET r == ResampleProcessorFlush(RsProcessor)
    IN  /\ processors' = <<Processor("resample", r.processor)>>
        /\ hist' = [op |-> "flush", frame |-> None, out |-> r.out]
        /\ RsUnchanged

RsReset ==
    /\ processors' = <<Processor("resample", ResampleProcessorReset(RsProcessor))>>
    /\ hist' = [op |-> "reset", frame |-> None, out |-> <<>>]
    /\ RsUnchanged

RsNext == RsProcess \/ RsDrainReady \/ RsFlush \/ RsReset

SpecResample == RsInit /\ [][RsNext]_vars

\* The last call was process() on a frame the processor passes through:
\* source rate equal to target rate, frame channels equal to target channels.
RsPassthrough ==
    /\ hist.op = "process"
    /\ stream_state(RsProcessor, Unwrap(hist.frame).source).source_rate
          = RsProcessor.target_rate
    /\ Unwrap(hist.frame).channels = RsProcessor.target_channels

\* C26: in passthrough every process() call with a non-empty frame emits
\* exactly one frame, with the source, the samples in their order and the
\* timestamp of the input, for any interleaving of System and Microphone
\* frames, and nothing stays buffered after the call.
C26_PassthroughEmitsInput ==
    RsPassthrough =>
        /\ Len(hist.out) = 1
        /\ hist.out[1].source = Unwrap(hist.frame).source
        /\ hist.out[1].samples = Unwrap(hist.frame).samples
        /\ hist.out[1].timestamp = Unwrap(hist.frame).timestamp
        /\ \A s \in AudioSourceType :
              /\ stream_state(RsProcessor, s).input_buffer = <<>>
              /\ stream_state(RsProcessor, s).output_queue = <<>>
              /\ stream_state(RsProcessor, s).ready_queue = <<>>

\* A stereo Microphone frame passed through after a System frame and an
\* earlier Microphone frame with a later timestamp.
C26_InterleavedPassthrough ==
    /\ RsPassthrough
    /\ RsProcessor.target_channels = 2
    /\ Unwrap(hist.frame).source = Microphone
    /\ Unwrap(hist.frame).timestamp = 1000000
    /\ Len(Unwrap(hist.frame).samples) = 2 * MaxFrameLen
    /\ RsProcessor.mic_state.buffered_samples = MaxFrameLen
    /\ RsProcessor.sys_state.current_timestamp = 3000000
    /\ RsProcessor.sys_state.buffered_samples = 1

\* The state a processor keeps for one source is the one it was built with.
SourceStateDefault(p, s) ==
    CASE p.kind = "timestamp" ->
            (IF s = System THEN p.state.first_sys_timestamp
             ELSE p.state.first_mic_timestamp) = None
      [] p.kind = "resample" ->
            /\ stream_state(p.state, s).input_buffer = <<>>
            /\ stream_state(p.state, s).output_queue = <<>>
            /\ stream_state(p.state, s).ready_queue = <<>>
            /\ stream_state(p.state, s).current_timestamp = 0
            /\ stream_state(p.state, s).buffered_samples = 0
      [] p.kind = "quantizer" ->
            /\ source_state(p.state, s).sample_buffer = <<>>
            /\ source_state(p.state, s).current_timestamp = 0
            /\ source_state(p.state, s).samples_processed = 0
            /\ FramesFrom(p.state.ready_queue, s) = <<>>
      [] p.kind = "aec" ->
            IF s = System
            THEN /\ p.state.sys_frames_seen = 0
                 /\ p.state.last_system_active_frame = None
            ELSE /\ p.state.mic_frames_seen = 0
                 /\ p.state.skipped_inactive_mic = 0
      [] OTHER -> TRUE

\* C27: after frames of Microphone only through TimestampNormalizer,
\* ResampleProcessor, FrameQuantizer and AecProcessor, everything these keep
\* for System is as built (anchor unset, buffers and ready queues empty,
\* samples_processed and buffered counts zero, sys_frames_seen zero, last
\* active System frame unset); and the same with the sources exchanged.
C27_TwoSourceIsolation ==
    \A s \in AudioSourceType :
        hist.frames[s] = 0 =>
            \A i \in DOMAIN processors : SourceStateDefault(processors[i], s)

\* Two Microphone buffers went through the four processors: the Microphone
\* side of each holds state, the System side none.
C27_OnlyMicrophoneFrames ==
    /\ config.enable_aec
    /\ hist.frames = [s \in AudioSourceType |-> IF s = Microphone THEN 2 ELSE 0]
    /\ rx.queue = <<>>
    /\ pc = "loop"
    /\ \A i \in DOMAIN processors :
          /\ processors[i].kind \in {"timestamp", "resample", "quantizer", "aec"}
                => ~SourceStateDefault(processors[i], Microphone)
          /\ SourceStateDefault(processors[i], System)

\* The same for two System buffers.
C27_OnlySystemFrames ==
    /\ config.enable_aec
    /\ hist.frames = [s \in AudioSourceType |-> IF s = System THEN 2 ELSE 0]
    /\ rx.queue = <<>>
    /\ pc = "loop"
    /\ \A i \in DOMAIN processors :
          /\ processors[i].kind \in {"timestamp", "resample", "quantizer", "aec"}
                => ~SourceStateDefault(processors[i], System)
          /\ SourceStateDefault(processors[i], Microphone)

----------------------------------------------------------------------------
(* The tuner under changing echo quality: get_stats() reports an ERLE of   *)
(* 4.0 or of 0.0 and a delay of 10 ms or of 300 ms, so that ticks are      *)
(* rejected, tracked, rolled back and frozen.  One answer per tuner        *)
(* interval of active Microphone frames, System frames active.  After the *)
(* first MaxUnsteadyFrames frames since construction or reset the answers  *)
(* are the steady one (4.0, 10 ms) and the spike (0.0, 300 ms).            *)

MaxUnsteadyFrames == 150

ErleApmAnswers ==
    {[capture_ok |-> TRUE, erle |-> Some(erle), delay_ms |-> Some(delay)] :
        erle \in {0, 4000}, delay \in {10, 300}}

ErleSystemFrame ==
    AecProcess(AudioFrame(System, <<3, -10>>, 48000, 1, 0),
               [capture_ok |-> TRUE, erle |-> None, delay_ms |-> None], 1)

ErleMicFrames ==
    \E apm_in \in ErleApmAnswers, n \in MicBatchSizes :
        /\ (apm_in.erle = Some(0)) # (apm_in.delay_ms = Some(300))
                => aec.mic_frames_seen < MaxUnsteadyFrames
        /\ AecProcess(AudioFrame(Microphone, <<3, -10>>, 48000, 1, 0),
                      apm_in, n)

ErleNext == ErleSystemFrame \/ ErleMicFrames \/ AecReset

SpecErle == AecInit /\ [][ErleNext]_vars

\* C28: a snapshot with delay_ms >= 250 and erle < 1.0 is rejected: the
\* tuner returns "unchanged" (the module is not reconfigured), no tuner
\* field changes (applied delay, best delay, best ERLE, EMA, last ERLE,
\* step, direction, stable windows, frozen) and no event counter grows.
C28_UnstableRejected ==
    (ActiveTick /\ TickRejected) =>
        /\ ~hist.panicked
        /\ TunerFields(aec) = TunerFields(Unwrap(hist.before))
        /\ TunerEvents(stats) = TunerEvents(Unwrap(hist.stats_before))
        /\ aec.apm = Unwrap(hist.before).apm

\* A spike (ERLE 0.0, delay 300 ms) reported after the tuner had moved the
\* delay away from the best one and counted stable windows.
C28_SpikeAfterTuning ==
    /\ ActiveTick
    /\ TickRejected
    /\ stats.aec_tuner.tune_events > 0
    /\ aec.applied_delay_ms # aec.tuner_best_delay_ms
    /\ aec.tuner_stable_windows > 0
    /\ IsSome(aec.tuner_last_erle)

\* The last call was a tick the tuner accepted: active and not rejected.
AcceptedTick == ActiveTick /\ ~TickRejected

\* The ERLE is high and steady after the tick: best >= 3.5 and
\* |ema - best| <= 0.1.
TickStable ==
    /\ Unwrap(aec.tuner_best_erle) >= FreezeErle
    /\ Abs(Unwrap(aec.tuner_erle_ema) - Unwrap(aec.tuner_best_erle)) <= BestMargin

C29_FrozenAgainAfterReset ==
    /\ AcceptedTick
    /\ aec.tuner_frozen
    /\ hist.resets = 1
    /\ stats.aec_tuner.freeze_events = 2

\* A steady tick that set a new best started the count again at one.
C29_CountRestartedByNewBest ==
    /\ AcceptedTick
    /\ TickStable
    /\ Unwrap(hist.before).tuner_stable_windows >= 1
    /\ aec.tuner_stable_windows = 1

\* The tick's EMA has dropped more than 1.0 below the best ERLE.
TickEmaDropped ==
    Unwrap(aec.tuner_erle_ema) < Unwrap(aec.tuner_best_erle) - RollbackDrop

C30_NoRollbackAtBestDelay ==
    /\ AcceptedTick
    /\ ~hist.panicked
    /\ TickEmaDropped
    /\ Unwrap(hist.before).applied_delay_ms = aec.tuner_best_delay_ms
    /\ stats.aec_tuner.rollback_events
          = Unwrap(hist.stats_before).aec_tuner.rollback_events
    /\ stats.aec_tuner.tune_events
          = Unwrap(hist.stats_before).aec_tuner.tune_events + 1

----------------------------------------------------------------------------
(* The tuner under an echo quality that rises and falls by steps: one      *)
(* get_stats() answer per tuner interval of active Microphone frames, the  *)
(* delay 10 ms, the ERLE on a ladder of five values one unit apart: the    *)
(* first at either end, each later one a rung above or below the last ERLE *)
(* the tuner took, staying on the end rung where the ladder ends.          *)

MaxLadderFrames == 450

ErleLadder == {0, 1000, 2000, 3000, 4000}

LadderAnswers ==
    IF IsSome(aec.tuner_last_erle)
    THEN LET last == Unwrap(aec.tuner_last_erle)
         IN  {Max(last - 1000, 0), Min(last + 1000, 4000)}
    ELSE {0, 4000}

LadderSystemFrame ==
    AecProcess(AudioFrame(System, <<3, -10>>, 48000, 1, 0),
               [capture_ok |-> TRUE, erle |-> None, delay_ms |-> None], 1)

LadderMicFrames ==
    \E erle \in LadderAnswers, n \in MicBatchSizes :
        /\ aec.mic_frames_seen < MaxLadderFrames
        /\ AecProcess(AudioFrame(Microphone, <<3, -10>>, 48000, 1, 0),
                      [capture_ok |-> TRUE, erle |-> Some(erle),
                       delay_ms |-> Some(10)], n)

LadderNext == LadderSystemFrame \/ LadderMicFrames \/ AecReset

SpecLadder == AecInit /\ [][LadderNext]_vars

\* The raw ERLE of the tick against the last raw ERLE the tuner took.
TickErleDropped ==
    /\ IsSome(Unwrap(hist.before).tuner_last_erle)
    /\ TickErle + StepMargin < Unwrap(Unwrap(hist.before).tuner_last_erle)

TickErleRose ==
    /\ IsSome(Unwrap(hist.before).tuner_last_erle)
    /\ TickErle > Unwrap(Unwrap(hist.before).tuner_last_erle) + StepMargin

\* The direction and step the adaptation of lines 230-239 leaves.
TickStepAfter ==
    LET step == Unwrap(hist.before).tuner_step_ms
    IN  IF TickErleDropped THEN Max(step - 1, 2)
        ELSE IF TickErleRose THEN Min(step + 1, 8)
        ELSE step

TickDirectionAfter ==
    IF TickErleDropped
    THEN -Unwrap(hist.before).tuner_direction
    ELSE Unwrap(hist.before).tuner_direction

\* The proposal of the tick is the delay already applied (lines 241-249).
TickProposalAtApplied ==
    LET b == TickTracked
        lo == Max(b.tuner_best_delay_ms - TunerWindowMs, 0)
        hi == Min(b.tuner_best_delay_ms + TunerWindowMs, b.tuner_max_delay_ms)
        x == b.applied_delay_ms + TickDirectionAfter * TickStepAfter
    IN  (IF x < lo THEN lo ELSE IF x > hi THEN hi ELSE x) = b.applied_delay_ms

\* C31: in every reachable tuner state step_ms is within 2..8 and direction
\* is -1 or +1; after construction and after reset() they are 5 and +1; a
\* tick that reaches the step adaptation leaves the step one smaller (not
\* below 2) with the direction reversed when the raw ERLE fell by more than
\* 0.2 against the last raw ERLE, one larger (not above 8) when it rose by
\* more than 0.2, and unchanged otherwise, the direction being reversed once
\* more when the proposal is the delay already applied.
C31_StepAndDirection ==
    /\ aec.tuner_step_ms \in 2..8
    /\ aec.tuner_direction \in {-1, 1}
    /\ hist.op \in {"new", "reset"} =>
          aec.tuner_step_ms = 5 /\ aec.tuner_direction = 1
    /\ (ProposeTick /\ ~hist.panicked) =>
          /\ aec.tuner_step_ms = TickStepAfter
          /\ aec.tuner_direction =
                IF TickProposalAtApplied
                THEN -TickDirectionAfter ELSE TickDirectionAfter

\* Witnesses of C31: a tick on a raw ERLE that rose, the step already 8; a
\* tick on a raw ERLE that fell, the step already 2.
C31_StepAtCeiling ==
    /\ ProposeTick /\ ~hist.panicked /\ TickErleRose
    /\ Unwrap(hist.before).tuner_step_ms = 8
    /\ aec.tuner_step_ms = 8

C31_StepAtFloor ==
    /\ ProposeTick /\ ~hist.panicked /\ TickErleDropped
    /\ Unwrap(hist.before).tuner_step_ms = 2
    /\ aec.tuner_step_ms = 2
    /\ aec.tuner_direction = -Unwrap(hist.before).tuner_direction

\* C32: in every reachable tuner state best_delay_ms is not negative and
\* applied_delay_ms is within 40 ms of best_delay_ms, whatever ticks (best
\* updates, proposals, rollbacks, freeze) and resets came before.
C32_ExplorationLocal ==
    /\ aec.tuner_best_delay_ms >= 0
    /\ aec.applied_delay_ms - aec.tuner_best_delay_ms <= 40
    /\ aec.tuner_best_delay_ms - aec.applied_delay_ms <= 40

\* Witness of C32: a proposal stopped at the edge of the window, 40 ms from
\* the best delay.
C32_AtWindowEdge ==
    /\ ProposeTick /\ ~hist.panicked
    /\ Unwrap(hist.before).applied_delay_ms < aec.applied_delay_ms
    /\ aec.applied_delay_ms = aec.tuner_best_delay_ms + 40

----------------------------------------------------------------------------
(* The AecProcessor frame by frame: one process() call per step, over two  *)
(* tuner intervals, with automatic delay tuning enabled and disabled.      *)

MaxFrameOrdinal == 100

FrameConfigs ==
    {[AecConfig(10, 140) EXCEPT !.aec_auto_delay_tuning = tuning] :
        tuning \in BOOLEAN}

FrameInit ==
    \E cfg \in FrameConfigs, apm_ok \in BOOLEAN :
        /\ config = cfg
        /\ aec = AecProcessorNew(cfg, apm_ok)
        /\ stats = publish_tuner_stats(AecProcessorNew(cfg, apm_ok),
                                       RuntimeStatsDefault, None, None)
        /\ normalizer = TimestampNormalizerNew(0)
        /\ quantizer = for_webrtc
        /\ NoWorker
        /\ hist = [op |-> "new", tuner_called |-> FALSE,
                   panicked |-> FALSE, resets |-> 0, sys_passes |-> 0,
                   frame |-> None, apm_in |-> None, n |-> 0, out |-> <<>>,
                   before |-> None, stats_before |-> None]

FrameSystem ==
    AecProcess(AudioFrame(System, <<3, -10>>, 48000, 1, 0),
               [capture_ok |-> TRUE, erle |-> None, delay_ms |-> None], 1)

FrameMicrophone ==
    \E samples \in AecSamples, erle \in {0, 4000} :
        /\ aec.mic_frames_seen < MaxFrameOrdinal
        /\ AecProcess(AudioFrame(Microphone, samples, 48000, 1, 0),
                      [capture_ok |-> TRUE, erle |-> Some(erle),
                       delay_ms |-> Some(10)], 1)

FrameNext == FrameSystem \/ FrameMicrophone \/ AecReset

SpecFrames == FrameInit /\ [][FrameNext]_vars

\* What the tuner decides and what it has applied to the module.
TunerOutcome(a) ==
    <<a.applied_delay_ms, a.tuner_best_delay_ms, a.tuner_best_erle,
      a.tuner_erle_ema, a.tuner_step_ms, a.tuner_direction, a.tuner_frozen,
      a.skipped_inactive_mic, a.skipped_inactive_system, a.apm>>

\* C33: a process() call changes the applied delay, the best delay, the best
\* ERLE, the EMA, the step, the direction, the frozen flag, the skip
\* counters or the configuration of the audio-processing module only if it
\* is on a Microphone frame whose ordinal since construction or reset is a
\* positive multiple of 50 and automatic delay tuning is enabled; every
\* System frame and every other Microphone frame leaves them as they were.
C33_TunerTicksOnly ==
    [][(/\ hist'.op \in {System, Microphone}
        /\ TunerOutcome(aec') # TunerOutcome(aec))
       => /\ hist'.op = Microphone
          /\ config.aec_auto_delay_tuning
          /\ aec'.mic_frames_seen = aec.mic_frames_seen + 1
          /\ aec'.mic_frames_seen > 0
          /\ aec'.mic_frames_seen % 50 = 0]_vars

\* Witnesses of C33: the hundredth Microphone frame moved the applied delay
\* and reconfigured the module; with tuning disabled the hundredth frame
\* found and left everything as constructed.
C33_SecondTickTuned ==
    /\ hist.op = Microphone
    /\ aec.mic_frames_seen = 100
    /\ aec.applied_delay_ms # Unwrap(hist.before).applied_delay_ms
    /\ IsSome(aec.apm)
    /\ aec.apm # Unwrap(hist.before).apm

C33_DisabledNeverTunes ==
    /\ hist.op = Microphone
    /\ ~config.aec_auto_delay_tuning
    /\ aec.mic_frames_seen = 100
    /\ IsSome(aec.last_system_active_frame)
    /\ TunerOutcome(aec) = TunerOutcome(AecProcessorNew(config, TRUE))

\* The stream delay the module is configured with is the one build_apm_config
\* makes of the applied delay (aec.rs lines 257-279): absent for 0.
ApmFollowsApplied(a) ==
    IsSome(a.apm) =>
        Unwrap(a.apm) =
            (IF a.applied_delay_ms > 0 THEN Some(a.applied_delay_ms) ELSE None)

\* C34: whenever the audio-processing module is present, the stream delay
\* configured in it is the tuner's applied_delay_ms (absent when that is 0),
\* after construction, after each System and Microphone frame and after
\* reset().
C34_ApmDelayIsApplied == ApmFollowsApplied(aec)

\* The same as long as reset() has not been called.
C34_ApmDelayIsAppliedBeforeReset ==
    hist.resets = 0 => ApmFollowsApplied(aec)

\* A tick that reconfigured the module.
C34_ReconfiguredByTick ==
    /\ hist.op = Microphone /\ hist.tuner_called /\ ~hist.panicked
    /\ IsSome(aec.apm)
    /\ aec.apm # Unwrap(hist.before).apm
    /\ aec.applied_delay_ms # Unwrap(hist.before).applied_delay_ms

\* An accepted process() call returned a frame.
ProcessReturnedFrame ==
    /\ hist'.op = "process" /\ hist'.accepted
    /\ hist'.out # <<>>

\* C35: for any interleaving of process and drain_ready calls on both
\* sources, the frame returned by process(f) has the source of f: the source
\* whose received samples grew in the call.
C35_ProcessReturnsOwnQuantum ==
    [][ProcessReturnedFrame =>
          hist'.received[hist'.out[1].source]
              # hist.received[hist'.out[1].source]]_vars

\* The same for the process() calls that find the ready queue empty: the
\* frame returned has the source of the input and holds the oldest samples
\* of that source not emitted before.
C35_OwnQuantumAfterFullDrain ==
    [][(ProcessReturnedFrame /\ quantizer.ready_queue = <<>>) =>
          LET s == hist'.out[1].source
              from == Len(hist.emitted[s])
              n == Len(hist'.out[1].samples)
          IN  /\ hist'.received[s] # hist.received[s]
              /\ hist'.out[1].samples =
                     SubSeq(hist'.received[s], from + 1, from + n)]_vars

\* The frames process() of the processor of a kind emits when the worker
\* takes the frame at the head of the input queue: one per call that
\* returns a frame, the frames of drain_ready not counted.
EmittedByProcess(kind) ==
    IF Reaching(kind) = <<>> THEN 0
    ELSE Len(ProcessInputs([processor |-> processors[StageOf(kind)],
                            stats |-> stats, next_frames |-> <<>>,
                            panic |-> FALSE],
                           Reaching(kind), StageOf(kind) - 1, config,
                           CHOOSE env \in PipelineEnvs : TRUE,
                           FALSE).next_frames)

\* The worker's step adds, for the processor of a kind, one sample per frame
\* its process() emitted to the stage statistics named after it.
StageRecordedUnderOwnKey(kind) ==
    StageStatsOf(stats')[kind].samples =
        StageStatsOf(stats)[kind].samples + EmittedByProcess(kind)

\* C36: in every configuration of enable_aec and enable_ns, each process
\* invocation of a main-chain processor that emits a frame adds one sample
\* to the stage statistics of the key naming that processor, and to no
\* other; with NS enabled, with or without AEC, the time of the NS stage is
\* recorded under ns_processor.
C36_StageKeysNameProcessors ==
    [][hist'.op = "frame" =>
          \A kind \in {"timestamp", "resample", "quantizer", "aec", "ns"} :
              StageRecordedUnderOwnKey(kind)]_vars

\* The same in the configurations other than NS without AEC; and in every
\* configuration no stage statistics grow by more than the frames the
\* processor they are named after emitted.
C36_StageKeysUnlessNsAlone ==
    [][hist'.op = "frame" =>
          \A kind \in {"timestamp", "resample", "quantizer", "aec", "ns"} :
              /\ (config.enable_aec \/ ~config.enable_ns)
                    => StageRecordedUnderOwnKey(kind)
              /\ StageStatsOf(stats')[kind].samples
                    <= StageStatsOf(stats)[kind].samples
                          + EmittedByProcess(kind)]_vars

\* With NS enabled and AEC disabled the NS stage has processed a quantum of
\* a Microphone buffer and delivered it, and ns_processor holds no sample.
C36_NsAloneUnrecorded ==
    /\ ~config.enable_aec /\ config.enable_ns
    /\ hist.op = "frame"
    /\ stats.quantizer_processor.samples > 0
    /\ \E i \in DOMAIN hist.calls : hist.calls[i].name = "mic"
    /\ stats.ns_processor.samples = 0

\* With AEC and NS enabled both stages are recorded under their keys.
C36_BothRecorded ==
    /\ config.enable_aec /\ config.enable_ns
    /\ hist.op = "frame"
    /\ stats.aec_processor.samples = 2
    /\ stats.ns_processor.samples = 2
    /\ stats.quantizer_processor.samples = 1

\* Nothing is left in the processor for a source.
StreamEmptied(p, source) ==
    /\ stream_state(p, source).input_buffer = <<>>
    /\ stream_state(p, source).output_queue = <<>>
    /\ stream_state(p, source).ready_queue = <<>>

\* C37: after ResampleProcessor.flush() the input buffer, the output queue
\* and the ready queue of both sources are empty, in passthrough mode and
\* with a resampler holding fewer samples than one chunk.
C37_FlushEmptiesBuffers ==
    hist.op = "flush" =>
        \A source \in AudioSourceType : StreamEmptied(RsProcessor, source)

\* The same for the streams without a resampler (source rate equal to the
\* target rate).
C37_FlushEmptiesPassthrough ==
    hist.op = "flush" =>
        \A source \in AudioSourceType :
            IsSome(stream_state(RsProcessor, source).resampler)
                \/ StreamEmptied(RsProcessor, source)

\* What the capture paths of the enabled WebRTC stages make of a sample:
\* each doubles it.
WebRtcGain ==
    (IF config.enable_aec THEN 2 ELSE 1) * (IF config.enable_ns THEN 2 ELSE 1)

\* The samples of a call are captured samples the enabled WebRTC stages
\* have processed, in their order, zeros of padding aside.
CallWasProcessed(call) ==
    /\ \A j \in DOMAIN call.samples :
          call.samples[j] # 0 => call.samples[j] % WebRtcGain = 0
    /\ \A j \in 1..(Len(call.samples) - 1) :
          (call.samples[j] # 0 /\ call.samples[j + 1] # 0)
              => call.samples[j + 1] - call.samples[j] = WebRtcGain

\* C38: with AEC enabled, every Microphone frame delivered to
\* callback("mic"), during the run and at the shutdown flush, has passed
\* through AecProcessor.process, and through
\* NoiseSuppressionProcessor.process when NS is enabled.
C38_MicDeliveredAfterAec ==
    config.enable_aec =>
        \A i \in DOMAIN hist.calls :
            hist.calls[i].name = "mic" => CallWasProcessed(hist.calls[i])

\* The same for the frames delivered while the worker is in its loop.
C38_MicDeliveredAfterAecInLoop ==
    (config.enable_aec /\ pc = "loop") =>
        \A i \in DOMAIN hist.calls :
            hist.calls[i].name = "mic" => CallWasProcessed(hist.calls[i])

\* With AEC enabled the worker, still in its loop, has delivered a
\* Microphone quantum.
C38_QuantumDeliveredInLoop ==
    /\ config.enable_aec /\ pc = "loop"
    /\ \E i \in DOMAIN hist.calls :
          /\ hist.calls[i].name = "mic"
          /\ Len(hist.calls[i].samples) = 480
          /\ hist.calls[i].samples[1] = WebRtcGain

\* The AEC stage of the main chain.
AecStage == processors[StageOf("aec")].state

\* Frames per channel of the buffers of a source still in the input queue.
RECURSIVE QueuedFrames(_, _)
QueuedFrames(queue, source) ==
    IF queue = <<>> THEN 0
    ELSE (IF Head(queue).source = source
          THEN Len(Head(queue).samples) \div Head(queue).channels ELSE 0)
         + QueuedFrames(Tail(queue), source)

\* Frames per channel of the buffers of a source the worker has dequeued.
DequeuedFrames(source) ==
    hist.captured[source] - QueuedFrames(rx.queue, source)

\* C39: with AEC enabled, whenever the worker is in its loop every complete
\* quantum of 480 samples of the System buffers dequeued so far has been
\* submitted to the render path of the AEC, and every complete quantum of
\* the Microphone buffers dequeued so far, and no other, to its capture
\* path; the step that processes a Microphone buffer submits nothing to the
\* render path.  A System buffer dequeued before a Microphone buffer has so
\* had all its quanta rendered before any quantum of that Microphone buffer
\* is captured.
C39_RenderBeforeCapture ==
    [][(config.enable_aec /\ pc' = "loop") =>
          /\ AecStage'.sys_frames_seen = DequeuedFrames(System)' \div 480
          /\ AecStage'.mic_frames_seen = DequeuedFrames(Microphone)' \div 480
          /\ (hist'.op = "frame" /\ Head(rx.queue).source = Microphone)
                => AecStage'.sys_frames_seen = AecStage.sys_frames_seen]_vars

\* A System buffer of two quanta, then a Microphone buffer: both System
\* quanta were rendered before the step that captured the Microphone
\* quantum.
C39_TwoRenderedThenCaptured ==
    /\ config.enable_aec /\ pc = "loop"
    /\ hist.op = "frame"
    /\ rx.queue = <<>>
    /\ hist.captured[System] = 980
    /\ AecStage.sys_frames_seen = 2
    /\ AecStage.mic_frames_seen >= 1
    /\ hist.calls[Len(hist.calls)].name = "mic"

\* The ready queues of a processor are empty: the shared queue of a
\* quantizer, the queue of each source of a resampler.
ReadyQueuesEmpty(p) ==
    CASE p.kind = "quantizer" -> p.state.ready_queue = <<>>
      [] p.kind = "resample" ->
            \A source \in AudioSourceType :
                stream_state(p.state, source).ready_queue = <<>>
      [] OTHER -> TRUE

\* C40: whenever the worker has processed a frame, of either source and in
\* any interleaving, the ready queue of every processor of the main chain
\* and of both final chains is empty for both sources: no frame generated
\* from one input waits for a later input.
C40_NoFrameStranded ==
    \A chain \in {processors, sys_pipeline, mic_pipeline} :
        \A i \in DOMAIN chain : ReadyQueuesEmpty(chain[i])

\* A buffer of two quanta went through the quantizer: the second quantum
\* came out of drain_ready within the same worker step.
C40_SecondQuantumDrained ==
    /\ hist.op = "frame" /\ pc = "loop"
    /\ config.enable_aec
    /\ hist.frames[Microphone] = 1 /\ hist.captured[Microphone] = 980
    /\ rx.queue = <<>>
    /\ NamedCalls(hist.calls, "mic") = 2
    /\ processors[StageOf("quantizer")].state.mic_state.samples_processed = 960

====
